---- MODULE Spec2Model ----
(***************************************************************************)
(* Audio subsystem of the game engine: MusicPlayer (background music with  *)
(* fades and crossfades), SoundEffect (one playable sound), AudioManager   *)
(* (singleton, catalog, pools, persisted settings).                        *)
(*                                                                         *)
(* Output levels are fixed-point numbers: Unit stands for the level 1.0.   *)
(* The event loop is modelled as one action per macrotask: a public call,  *)
(* a timer callback of a fade ramp, the settling of a media promise, a     *)
(* load event.  Code that runs in microtasks after such an event (the      *)
(* continuation of an await whose promise has just been resolved) is part  *)
(* of the same action.                                                     *)
(***************************************************************************)
EXTENDS Integers, Sequences, FiniteSets, TLC

(* ------------------------------ bounds -------------------------------- *)

\* Public MusicPlayer calls that may be in flight (awaiting) at once.
MaxCalls == 2
\* Audio elements that may be alive at once (unreferenced ones are collected);
\* SpecCrossfades has one more.
MaxAudio == 2
\* Timer callbacks of one ramp that fire between two observed steps of Spec
\* (SpecOverlap observes a ramp when it starts and when it terminates).
TickStride == 30
\* AudioManager objects constructed in one run (the singleton and its
\* successors after dispose).
MaxInstances == 2
\* SoundEffect objects alive at once (unreferenced ones are collected).
MaxSounds == 5
\* Definitions of the reference catalog that initialize() loads: the first
\* MaxDefs entries of soundDefinitions.
MaxDefs == 2

\* Frames of an AudioBuffer handed to the WAV encoder: 0..MaxFrames.
MaxFrames == 2

(* ----------------------------- constants ------------------------------ *)

Unit == 60 * 60
Null == 0
Undefined == -1
steps == 60
PauseFadeDefault == 500
ResumeFadeDefault == 500
DefaultVolume == (7 * Unit) \div 10
defaultOptions ==
  [volume |-> DefaultVolume, crossfadeDuration |-> 2000,
   fadeInDuration |-> 1000, fadeOutDuration |-> 1000]

Tracks == <<"A", "B", "C">>
TrackNames == {Tracks[i] : i \in 1..Len(Tracks)}
\* The tracks played everywhere but in SpecCrossfades, which plays all three.
PlayNames == {"A", "B"}
VolumeInputs == {0, Unit + (Unit \div 2)}
AudioIds == 1..(MaxAudio + 1)
Slots == 1..MaxCalls

Min(a, b) == IF a <= b THEN a ELSE b
Max(a, b) == IF a >= b THEN a ELSE b

\* The product of two levels.
Mul(a, b) == (a * b) \div Unit

\* Playback rates are fixed-point numbers too: RateUnit stands for 1.0.
RateUnit == 100
MinRate == 25
MaxRate == 400
\* The overrides of a play call: undefined members are Undefined.
NoOptions == [volume |-> Undefined, playbackRate |-> Undefined]
Tenths(n) == (n * Unit) \div 10

\* The reference catalog of initialize(): name and options.volume of each entry.
soundDefinitions ==
  << [name |-> "jump", volume |-> Tenths(6)], [name |-> "land", volume |-> Tenths(4)],
     [name |-> "death", volume |-> Tenths(8)], [name |-> "powerup", volume |-> Tenths(7)],
     [name |-> "coin", volume |-> Tenths(5)], [name |-> "life", volume |-> Tenths(8)],
     [name |-> "enemy_stomp", volume |-> Tenths(6)], [name |-> "enemy_defeat", volume |-> Tenths(5)],
     [name |-> "block_break", volume |-> Tenths(5)], [name |-> "block_bump", volume |-> Tenths(4)],
     [name |-> "pipe", volume |-> Tenths(6)], [name |-> "menu_select", volume |-> Tenths(3)],
     [name |-> "menu_confirm", volume |-> Tenths(5)], [name |-> "pause", volume |-> Tenths(4)],
     [name |-> "level_start", volume |-> Tenths(7)], [name |-> "level_complete", volume |-> Tenths(8)],
     [name |-> "game_over", volume |-> Tenths(8)] >>
\* The quick-access methods and the name each passes to playSound().
convenience ==
  [jump |-> "jump", land |-> "land", death |-> "death", powerUp |-> "powerup",
   collectCoin |-> "coin", extraLife |-> "life",
   stompEnemy |-> "enemy_stomp", defeatEnemy |-> "enemy_defeat",
   breakBlock |-> "block_break", bumpBlock |-> "block_bump", enterPipe |-> "pipe",
   menuSelect |-> "menu_select", menuConfirm |-> "menu_confirm", pauseGame |-> "pause",
   levelStart |-> "level_start", levelComplete |-> "level_complete",
   gameOver |-> "game_over"]
Methods == DOMAIN convenience

Defs == SubSeq(soundDefinitions, 1, Min(MaxDefs, Len(soundDefinitions)))
DefNames == {Defs[k].name : k \in 1..Len(Defs)}
PooledNames == {"coin", "jump", "enemy_stomp"}
poolSize == 3
defaultSettings ==
  [masterVolume |-> Unit, sfxVolume |-> Tenths(8), musicVolume |-> Tenths(7),
   muted |-> FALSE, sfxMuted |-> FALSE, musicMuted |-> FALSE]
SoundIds == 1..MaxSounds
InstanceIds == 1..MaxInstances
\* What the persisted store may hold when the module is loaded.
AbsentStore == [state |-> "absent", blob |-> [muted |-> FALSE]]
StorageInputs ==
  { AbsentStore,
    [state |-> "corrupt", blob |-> [muted |-> FALSE]],
    [state |-> "json", blob |-> [sfxVolume |-> Unit \div 2]] }
\* Overrides passed to playSound().
OverrideInputs ==
  { NoOptions,
    [volume |-> Unit \div 2, playbackRate |-> Undefined],
    [volume |-> 2 * Unit, playbackRate |-> 5 * RateUnit] }
\* Options of a SoundEffect a caller constructs.
SoundOptionInputs ==
  { NoOptions,
    [volume |-> Tenths(6), playbackRate |-> 5 * RateUnit],
    [volume |-> Unit + (Unit \div 2), playbackRate |-> Undefined],
    [volume |-> Undefined, playbackRate |-> RateUnit \div 10] }
\* Overrides a caller passes to play() of a SoundEffect.
PlayInputs == OverrideInputs \cup { [volume |-> Undefined, playbackRate |-> 2 * RateUnit] }
\* Arguments of updateSettings() that matter to sound effects.
SfxSettingsInputs ==
  { [muted |-> TRUE], [sfxMuted |-> TRUE], [muted |-> FALSE, sfxMuted |-> FALSE],
    [masterVolume |-> Unit \div 2] }
\* What the persisted store may hold, readable or not, in range or not.
StoredInputs ==
  StorageInputs
  \cup { [state |-> "unreadable", blob |-> [muted |-> FALSE]],
         [state |-> "json", blob |-> [masterVolume |-> 2 * Unit, musicMuted |-> TRUE]] }
\* Arguments of updateSettings(), in range or not.
SettingsWrites ==
  { [musicVolume |-> Tenths(3)], [masterVolume |-> (3 * Unit) \div 2],
    [sfxVolume |-> 0 - Tenths(5), muted |-> TRUE] }
\* What the persisted store may hold for the music player.
MusicStoreInputs ==
  { AbsentStore,
    [state |-> "json", blob |-> [musicMuted |-> TRUE]],
    [state |-> "json", blob |-> [masterVolume |-> Unit \div 2]] }
\* Arguments of updateSettings() that matter to the music player.
MusicSettingsInputs == { [musicMuted |-> FALSE], [muted |-> TRUE] }

\* Arguments of updateSettings().
SettingsInputs == { [sfxMuted |-> TRUE], [sfxMuted |-> FALSE], [masterVolume |-> Unit \div 2] }

VARIABLES
  audio,          \* AudioIds -> the HTMLAudioElement in that slot
  currentTrack,   \* MusicPlayer.currentTrack: an audio id or Null
  loadedTracks,   \* MusicPlayer.loadedTracks: track name -> audio id or Null
  volume,         \* MusicPlayer._volume
  muted,          \* MusicPlayer._muted
  fadeIntervals,  \* MusicPlayer.fadeIntervals: the live ramp timers
  calls,          \* Slots -> the async MusicPlayer call suspended there
  last,           \* the call that returned in the last step: [op, ev]
  stride,         \* timer callbacks of one ramp per Tick step
  instance,       \* AudioManager.instance (static): an instance id or Null
  created,        \* AudioManager objects constructed so far: ids 1..created
  mgr,            \* InstanceIds -> the fields of that AudioManager
  sounds,         \* SoundIds -> the SoundEffect in that slot
  storage,        \* localStorage item 'mario-audio-settings'
  wav,            \* AudioGenerator: the rendered AudioBuffer and the bytes encoded from it
  stopped,        \* history: a stop() call has returned and no play() was called since
  disposed        \* history: the AudioManager instances on which dispose() has returned

musicVars == <<audio, currentTrack, loadedTracks, volume, muted, fadeIntervals, calls, stride>>
managerVars == <<instance, created, mgr, sounds, storage>>
vars == <<audio, currentTrack, loadedTracks, volume, muted, fadeIntervals, calls, last, stride,
          instance, created, mgr, sounds, storage, wav, stopped, disposed>>

(* ------------------------- audio elements ----------------------------- *)

FreeAudio == [name |-> "", paused |-> TRUE, volume |-> 0, pos |-> 0, src |-> FALSE]
NewAudio(name) == [name |-> name, paused |-> TRUE, volume |-> Unit, pos |-> 0, src |-> TRUE]
IdleCall == [op |-> "none", pc |-> "idle", audio |-> Null, from |-> Null, ok |-> FALSE, fade |-> FALSE]
PlayWaits == {"play_wait", "xf_play_wait", "resume_wait"}
RampWaits == {"fade_wait", "stop_wait", "pause_wait", "xf_wait"}

\* The player's state as one record, so that operations compose.
\* What the last step returned to a caller: the method, how it returned
\* ("done", "throw"), the await it returned from ("run": none) and, for a
\* setter, its argument.
Event(op, ev, pc, arg) == [op |-> op, ev |-> ev, pc |-> pc, arg |-> arg]
NoEvent == Event("none", "none", "idle", Null)
St ==
  [audio |-> audio, currentTrack |-> currentTrack, loadedTracks |-> loadedTracks,
   volume |-> volume, muted |-> muted, fadeIntervals |-> fadeIntervals,
   calls |-> calls, last |-> NoEvent, stride |-> stride]

\* HTMLMediaElement.pause(): a playing element stops and the play promises
\* still pending on it are rejected (AbortError).
HTMLAudio_pause(s, a) ==
  IF s.audio[a].paused THEN s
  ELSE [s EXCEPT !.audio[a].paused = TRUE,
                 !.calls = [c \in Slots |->
                    IF s.calls[c].pc \in PlayWaits /\ s.calls[c].audio = a
                    THEN [s.calls[c] EXCEPT !.ok = FALSE] ELSE s.calls[c]]]

\* HTMLMediaElement.play(): transport starts at once when the browser
\* accepts the request; the returned promise settles in a later task.
HTMLAudio_play(s, a, accept) ==
  IF accept THEN [s EXCEPT !.audio[a].paused = FALSE] ELSE s

\* A call returns to its caller: "done" (resolved) or "throw" (rejected).
settle(s, c, outcome) ==
  [s EXCEPT !.calls[c] = IdleCall,
            !.last = Event(s.calls[c].op, outcome, s.calls[c].pc, Null)]

(* ------------------------------ ramps --------------------------------- *)

fadeIn(s, c, a) ==
  [s EXCEPT !.audio[a].volume = 0,
            !.fadeIntervals = @ \cup
               {[owner |-> c, kind |-> "in", audio |-> a, startVolume |-> 0,
                 targetVolume |-> s.volume, currentStep |-> 0]}]

fadeOut(s, c, a) ==
  [s EXCEPT !.fadeIntervals = @ \cup
               {[owner |-> c, kind |-> "out", audio |-> a,
                 startVolume |-> s.audio[a].volume,
                 targetVolume |-> 0, currentStep |-> 0]}]

\* Mutant of rampLevel: the callback computes the level of the step before.
rampLevel_behind(r, k) ==
  IF r.kind = "in"
  THEN Min(r.targetVolume, r.startVolume + ((r.targetVolume - r.startVolume) * (k - 1)) \div steps)
  ELSE Max(r.targetVolume, r.startVolume - ((r.startVolume - r.targetVolume) * (k - 1)) \div steps)

\* The level a timer callback writes at step k.
rampLevel(r, k) ==
  IF r.kind = "in"
  THEN Min(r.targetVolume, r.startVolume + ((r.targetVolume - r.startVolume) * k) \div steps)
  ELSE Max(r.targetVolume, r.startVolume - ((r.startVolume - r.targetVolume) * k) \div steps)

\* The callback's termination test at step k.
rampDone(r, k) ==
  \/ k >= steps
  \/ IF r.kind = "in" THEN rampLevel(r, k) >= r.targetVolume
                      ELSE rampLevel(r, k) <= r.targetVolume

\* The step reached after the next n callbacks, or the step at which the
\* ramp terminates if that comes first.
nextStep(r, n) ==
  LET hi == Min(r.currentStep + n, steps)
      ends == {j \in (r.currentStep + 1)..hi : rampDone(r, j)}
  IN IF ends = {} THEN hi ELSE CHOOSE j \in ends : \A i \in ends : j <= i

(* --------------------------- MusicPlayer ------------------------------ *)

\* stop(), after the optional fade.
stopFinish(s, c) ==
  IF s.currentTrack = Null
  THEN settle(s, c, "throw")
  ELSE LET a == s.currentTrack
       IN settle([HTMLAudio_pause(s, a) EXCEPT !.audio[a].pos = 0,
                                               !.currentTrack = Null], c, "done")

\* crossfade(), after Promise.all of the two ramps.
crossfadeFinish(s, c) ==
  LET from == s.calls[c].from
      to == s.calls[c].audio
  IN settle([HTMLAudio_pause(s, from) EXCEPT !.audio[from].pos = 0,
                                             !.currentTrack = to], c, "done")

\* Mutant of crossfadeJoined: Promise.race, resolved by the first ramp to finish.
crossfadeJoined_race(s, c) == Cardinality({r \in s.fadeIntervals : r.owner = c}) <= 1

\* Promise.all(promises) of crossfade(): resolved when no ramp of the call is live.
crossfadeJoined(s, c) == \A r \in s.fadeIntervals : r.owner # c

\* The continuation of the call that awaited a ramp which has just resolved.
afterFade(s, c) ==
  LET pc == s.calls[c].pc
  IN CASE pc = "stop_wait" -> stopFinish(s, c)
       [] pc = "xf_wait" -> IF crossfadeJoined(s, c) THEN crossfadeFinish(s, c) ELSE s
       [] OTHER -> settle(s, c, "done")

\* Mutant of tick: the callback that ends the ramp leaves its timer in the set.
tick_leak(s, r) ==
  LET k == nextStep(r, s.stride)
      a == r.audio
  IN IF rampDone(r, k)
     THEN afterFade([s EXCEPT !.audio[a].volume = r.targetVolume], r.owner)
     ELSE [s EXCEPT !.audio[a].volume = rampLevel(r, k),
                    !.fadeIntervals = (@ \ {r}) \cup {[r EXCEPT !.currentStep = k]}]

\* One observation of ramp r's timer.
tick(s, r) ==
  LET k == nextStep(r, s.stride)
      a == r.audio
  IN IF rampDone(r, k)
     THEN afterFade([s EXCEPT !.audio[a].volume = r.targetVolume,
                              !.fadeIntervals = @ \ {r}], r.owner)
     ELSE [s EXCEPT !.audio[a].volume = rampLevel(r, k),
                    !.fadeIntervals = (@ \ {r}) \cup {[r EXCEPT !.currentStep = k]}]

crossfade(s, c, fromAudio, toAudio, accept) ==
  LET s1 == [s EXCEPT !.audio[toAudio].pos = 0, !.audio[toAudio].volume = 0]
  IN [HTMLAudio_play(s1, toAudio, accept) EXCEPT
        !.calls[c] = [IdleCall EXCEPT !.op = "play", !.pc = "xf_play_wait",
                                      !.audio = toAudio, !.from = fromAudio, !.ok = accept]]

\* Mutant of crossfadeAfterPlay: the ramps start whether or not the target plays.
crossfadeAfterPlay_blind(s, c) ==
  [fadeIn(fadeOut(s, c, s.calls[c].from), c, s.calls[c].audio) EXCEPT !.calls[c].pc = "xf_wait"]

\* crossfade(), after `await toAudio.play()`.
crossfadeAfterPlay(s, c) ==
  LET call == s.calls[c]
  IN IF ~call.ok THEN settle(s, c, "done")
     ELSE [fadeIn(fadeOut(s, c, call.from), c, call.audio) EXCEPT !.calls[c].pc = "xf_wait"]

\* Mutant of playLoaded: the current track is not looked at, the target is
\* always faded in alone.
playLoaded_plain(s, c, a, accept) ==
  LET s1 == [s EXCEPT !.currentTrack = a, !.audio[a].pos = 0]
  IN [HTMLAudio_play(s1, a, accept) EXCEPT
        !.calls[c] = [IdleCall EXCEPT !.op = "play", !.pc = "play_wait",
                                      !.audio = a, !.ok = accept]]

\* play(), after `await this.loadTrack(track)` returned audio element a.
playLoaded(s, c, a, accept) ==
  IF s.currentTrack # Null /\ s.currentTrack # a
  THEN crossfade(s, c, s.currentTrack, a, accept)
  ELSE LET s1 == [s EXCEPT !.currentTrack = a, !.audio[a].pos = 0]
       IN [HTMLAudio_play(s1, a, accept) EXCEPT
             !.calls[c] = [IdleCall EXCEPT !.op = "play", !.pc = "play_wait",
                                           !.audio = a, !.ok = accept]]

\* play(), after `await audio.play()`.
playAfterPlay(s, c) ==
  LET call == s.calls[c]
  IN IF ~call.ok THEN settle(s, c, "done")
     ELSE IF ~s.muted
          THEN [fadeIn(s, c, call.audio) EXCEPT !.calls[c].pc = "fade_wait"]
          ELSE settle(s, c, "done")

\* The slot a new element takes: the one of its track's index when that is
\* free, else the lowest free one.
freeId(s, track) ==
  LET home == CHOOSE i \in 1..Len(Tracks) : Tracks[i] = track
  IN IF home \in AudioIds /\ s.audio[home].name = "" THEN home
     ELSE CHOOSE i \in AudioIds : s.audio[i].name = "" /\ \A j \in 1..(i - 1) : s.audio[j].name # ""

\* loadTrack(): the cached element, or a new element whose load is awaited.
loadTrack(s, c, track) ==
  LET i == freeId(s, track)
  IN [s EXCEPT !.audio[i] = [NewAudio(track) EXCEPT !.volume = 0],
               !.calls[c] = [IdleCall EXCEPT !.op = "play", !.pc = "load_wait", !.audio = i]]

MusicPlayer_play(s, c, track, accept) ==
  IF s.loadedTracks[track] # Null
  THEN playLoaded(s, c, s.loadedTracks[track], accept)
  ELSE loadTrack(s, c, track)

\* loadTrack(), after canplaythrough; play() then goes on.
loadResolved(s, c, accept) ==
  LET a == s.calls[c].audio
  IN playLoaded([s EXCEPT !.loadedTracks[s.audio[a].name] = a], c, a, accept)

MusicPlayer_stop(s, c, fadeOutDuration) ==
  IF s.currentTrack = Null THEN settle([s EXCEPT !.calls[c].op = "stop"], c, "done")
  ELSE LET duration == IF fadeOutDuration # Undefined THEN fadeOutDuration
                       ELSE defaultOptions.fadeOutDuration
           s1 == [s EXCEPT !.calls[c] = [IdleCall EXCEPT !.op = "stop", !.pc = "run",
                                                        !.audio = s.currentTrack]]
       IN IF duration > 0 /\ ~s.muted
          THEN [fadeOut(s1, c, s.currentTrack) EXCEPT !.calls[c].pc = "stop_wait"]
          ELSE stopFinish(s1, c)

MusicPlayer_pause(s, c, fadeOutDuration) ==
  IF s.currentTrack = Null THEN settle([s EXCEPT !.calls[c].op = "pause"], c, "done")
  ELSE LET duration == IF fadeOutDuration # Undefined THEN fadeOutDuration
                       ELSE PauseFadeDefault
           s1 == [s EXCEPT !.calls[c] = [IdleCall EXCEPT !.op = "pause", !.pc = "run",
                                                        !.audio = s.currentTrack]]
       IN IF duration > 0 /\ ~s.muted
          THEN [fadeOut(s1, c, s.currentTrack) EXCEPT !.calls[c].pc = "pause_wait"]
          ELSE settle(HTMLAudio_pause(s1, s.currentTrack), c, "done")

MusicPlayer_resume(s, c, fadeInDuration, accept) ==
  IF s.currentTrack = Null THEN settle([s EXCEPT !.calls[c].op = "resume"], c, "done")
  ELSE LET duration == IF fadeInDuration # Undefined THEN fadeInDuration
                       ELSE ResumeFadeDefault
           a == s.currentTrack
       IN [HTMLAudio_play(s, a, accept) EXCEPT
             !.calls[c] = [IdleCall EXCEPT !.op = "resume", !.pc = "resume_wait",
                                           !.audio = a, !.ok = accept,
                                           !.fade = (duration > 0)]]

\* resume(), after `await this.currentTrack.play()`; a null currentTrack
\* raises a TypeError inside the try block, which the catch absorbs.
resumeAfterPlay(s, c) ==
  LET call == s.calls[c]
      cur == s.currentTrack
  IN IF ~call.ok \/ cur = Null THEN settle(s, c, "done")
     ELSE IF call.fade /\ ~s.muted
          THEN [fadeIn([s EXCEPT !.audio[cur].volume = 0], c, cur) EXCEPT
                  !.calls[c].pc = "fade_wait", !.calls[c].audio = cur]
          ELSE settle([s EXCEPT !.audio[cur].volume = IF s.muted THEN 0 ELSE s.volume],
                      c, "done")

\* Mutant of MusicPlayer_setVolume: the new volume is written to the current
\* track even while the player is muted.
MusicPlayer_setVolume_loud(s, v) ==
  LET nv == Max(0, Min(Unit, v))
      s1 == [s EXCEPT !.volume = nv, !.last = Event("setVolume", "done", "run", v)]
  IN IF s.currentTrack # Null
     THEN [s1 EXCEPT !.audio[s.currentTrack].volume = nv]
     ELSE s1

MusicPlayer_setVolume(s, v) ==
  LET nv == Max(0, Min(Unit, v))
      s1 == [s EXCEPT !.volume = nv, !.last = Event("setVolume", "done", "run", v)]
  IN IF s.currentTrack # Null /\ ~s.muted
     THEN [s1 EXCEPT !.audio[s.currentTrack].volume = nv]
     ELSE s1

MusicPlayer_setMuted(s, m) ==
  LET s1 == [s EXCEPT !.muted = m, !.last = Event("setMuted", "done", "run", m)]
  IN IF s.currentTrack # Null
     THEN [s1 EXCEPT !.audio[s.currentTrack].volume = IF m THEN 0 ELSE s.volume]
     ELSE s1

\* Mutant of MusicPlayer_dispose: the ramp timers are left running.
MusicPlayer_dispose_leak(s) ==
  LET cached == {s.loadedTracks[n] : n \in TrackNames} \ {Null}
  IN [s EXCEPT
        !.last = Event("dispose", "done", "run", 0),
        !.audio = [i \in AudioIds |->
           IF i \in cached THEN [s.audio[i] EXCEPT !.paused = TRUE, !.src = FALSE]
           ELSE s.audio[i]],
        !.loadedTracks = [n \in TrackNames |-> Null],
        !.currentTrack = Null]

\* dispose(): the calls that await a cancelled ramp never resume.  The
\* label carries the number of timers cleared.
MusicPlayer_dispose(s) ==
  LET cached == {s.loadedTracks[n] : n \in TrackNames} \ {Null}
      owners == {r.owner : r \in s.fadeIntervals}
  IN [s EXCEPT
        !.last = Event("dispose", "done", "run", Cardinality(s.fadeIntervals)),
        !.fadeIntervals = {},
        !.audio = [i \in AudioIds |->
           IF i \in cached THEN [s.audio[i] EXCEPT !.paused = TRUE, !.src = FALSE]
           ELSE s.audio[i]],
        !.calls = [c \in Slots |->
           IF c \in owners THEN IdleCall
           ELSE IF s.calls[c].pc \in PlayWaits /\ s.calls[c].audio \in cached
                THEN [s.calls[c] EXCEPT !.ok = FALSE]
                ELSE s.calls[c]],
        !.loadedTracks = [n \in TrackNames |-> Null],
        !.currentTrack = Null]

\* AudioManager.stopMusic / pauseMusic / resumeMusic: the fade flag becomes
\* the default duration or 0, and the player's promise is returned as it is.
AudioManager_stopMusic(s, c, fadeOut_) ==
  MusicPlayer_stop(s, c, IF fadeOut_ THEN Undefined ELSE 0)

AudioManager_pauseMusic(s, c, fadeOut_) ==
  MusicPlayer_pause(s, c, IF fadeOut_ THEN Undefined ELSE 0)

AudioManager_resumeMusic(s, c, fadeIn_, accept) ==
  MusicPlayer_resume(s, c, IF fadeIn_ THEN Undefined ELSE 0, accept)

\* The mute/volume composite of settings st applied to the player, as
\* playMusic() and updateVolumes() do.
applyComposite(s, st) ==
  LET s1 == IF st.muted \/ st.musicMuted
            THEN MusicPlayer_setMuted(s, TRUE)
            ELSE MusicPlayer_setVolume(MusicPlayer_setMuted(s, FALSE),
                                       Mul(st.musicVolume, st.masterVolume))
  IN [s1 EXCEPT !.last = NoEvent]

\* AudioManager.playMusic(track) under settings st.
AudioManager_playMusic(s, st, c, track, accept) ==
  MusicPlayer_play(applyComposite(s, st), c, track, accept)

(* --------------------------- the actions ------------------------------ *)

referenced(s) ==
  {s.currentTrack} \cup {s.loadedTracks[n] : n \in TrackNames}
  \cup {s.calls[c].audio : c \in Slots} \cup {s.calls[c].from : c \in Slots}
  \cup {r.audio : r \in s.fadeIntervals}

\* Whether, after the step to s, a stop() call has returned and no play() was
\* called since.
Stopped(s) ==
  IF s.last.op = "stop" /\ s.last.ev = "done" THEN TRUE
  ELSE IF \E c \in Slots : calls[c].pc = "idle" /\ s.calls[c].op = "play" THEN FALSE
  ELSE stopped

\* The next state is s, with the elements nothing refers to collected.
Commit(s) ==
  /\ audio' = [i \in AudioIds |-> IF i \in referenced(s) THEN s.audio[i] ELSE FreeAudio]
  /\ currentTrack' = s.currentTrack
  /\ loadedTracks' = s.loadedTracks
  /\ volume' = s.volume
  /\ muted' = s.muted
  /\ fadeIntervals' = s.fadeIntervals
  /\ calls' = s.calls
  /\ last' = s.last
  /\ stride' = stride
  /\ wav' = wav
  /\ stopped' = Stopped(s)
  /\ UNCHANGED <<managerVars, disposed>>

\* The audio elements in use.
Alive == {i \in AudioIds : audio[i].name # ""}

FreeSlot(c) == calls[c].pc = "idle" /\ \A d \in 1..(c - 1) : calls[d].pc # "idle"

Play ==
  \E c \in Slots, track \in PlayNames, accept \in BOOLEAN :
    /\ FreeSlot(c)
    /\ loadedTracks[track] = Null => Cardinality(Alive) < MaxAudio
    /\ accept => (loadedTracks[track] # Null /\ audio[loadedTracks[track]].src)
    /\ Commit(MusicPlayer_play(St, c, track, accept))

\* play(track) of any of the three tracks, none of them being loaded by
\* another call; one more element may be alive.
PlayOver ==
  \E c \in Slots, track \in TrackNames, accept \in BOOLEAN :
    /\ FreeSlot(c)
    /\ \A d \in Slots : calls[d].pc = "load_wait" => audio[calls[d].audio].name # track
    /\ loadedTracks[track] = Null => Cardinality(Alive) <= MaxAudio
    /\ accept => (loadedTracks[track] # Null /\ audio[loadedTracks[track]].src)
    /\ Commit(MusicPlayer_play(St, c, track, accept))

Stop ==
  \E c \in Slots, f \in BOOLEAN :
    /\ FreeSlot(c)
    /\ Commit(AudioManager_stopMusic(St, c, f))

Pause ==
  \E c \in Slots, f \in BOOLEAN :
    /\ FreeSlot(c)
    /\ Commit(AudioManager_pauseMusic(St, c, f))

Resume ==
  \E c \in Slots, f \in BOOLEAN, accept \in BOOLEAN :
    /\ FreeSlot(c)
    /\ accept => (currentTrack # Null /\ audio[currentTrack].src)
    /\ Commit(AudioManager_resumeMusic(St, c, f, accept))

SetVolume ==
  \E v \in VolumeInputs : Commit(MusicPlayer_setVolume(St, v))

SetMuted ==
  \E m \in BOOLEAN : Commit(MusicPlayer_setMuted(St, m))

Dispose == Commit(MusicPlayer_dispose(St))

\* canplaythrough on the element a play() call is loading.
LoadOk ==
  \E c \in Slots, accept \in BOOLEAN :
    /\ calls[c].pc = "load_wait"
    /\ Commit(loadResolved(St, c, accept))

\* error on the element a play() call is loading: loadTrack rejects, play() catches.
LoadFail ==
  \E c \in Slots :
    /\ calls[c].pc = "load_wait"
    /\ Commit(settle(St, c, "done"))

\* Playback has begun on element a: its position has moved past the start.
HTMLAudio_playing(s, a) ==
  IF ~s.audio[a].paused /\ s.audio[a].src THEN [s EXCEPT !.audio[a].pos = 1] ELSE s

\* The promise of an HTMLMediaElement.play() settles: resolved once playback
\* has begun, rejected if the request was refused or aborted by a pause.
PlaySettles ==
  \E c \in Slots :
    /\ calls[c].pc \in PlayWaits
    /\ LET s0 == St
           s == IF calls[c].ok THEN HTMLAudio_playing(s0, calls[c].audio) ELSE s0
       IN Commit(CASE calls[c].pc = "play_wait" -> playAfterPlay(s, c)
                   [] calls[c].pc = "xf_play_wait" -> crossfadeAfterPlay(s, c)
                   [] OTHER -> resumeAfterPlay(s, c))

\* A ramp's timer fires.
Tick ==
  \E r \in fadeIntervals : Commit(tick(St, r))

(* ------------------ SoundEffect and AudioManager ---------------------- *)

\* A SoundEffect: name and clone index (0: catalog entry, k: k-th clone of
\* a pool), _volume, _loaded, _error, the state of loadPromise, the awaits
\* suspended on its load (awaiting: the instance whose initialize() awaits
\* it; plays: play() calls, whose overrides together amount to playVolume
\* and playRate), options.playbackRate (rateOption), the number of times
\* load() has called audio.load() (fetches), and its audio element (level,
\* rate, paused, pos, ended, src).
FreeSound ==
  [name |-> "", clone |-> 0, volume |-> 0, loaded |-> FALSE, error |-> FALSE,
   loadPromise |-> "none", awaiting |-> Null, plays |-> FALSE, playVolume |-> 0,
   playRate |-> Undefined, rateOption |-> Undefined, fetches |-> 0,
   level |-> 0, rate |-> 0, paused |-> TRUE, pos |-> 0, ended |-> FALSE, src |-> FALSE,
   loads |-> FALSE, held |-> FALSE]

\* new SoundEffect(name, src, options), options.preload unset.
SoundEffect_construct(name, clone, options) ==
  LET vol == IF options.volume # Undefined THEN options.volume ELSE Unit
  IN [FreeSound EXCEPT !.name = name, !.clone = clone, !.volume = vol, !.level = vol,
                       !.rateOption = options.playbackRate,
                       !.rate = IF options.playbackRate # Undefined
                                THEN options.playbackRate ELSE RateUnit,
                       !.src = TRUE]

\* audio.volume = v throws (IndexSizeError) outside [0, 1].
HTMLAudio_volumeThrows(v) == v < 0 \/ v > Unit

\* new SoundEffect(...) by a caller, who holds the object; the constructor
\* throws when the element refuses the volume.
SoundEffect_constructCall(m, s, options) ==
  LET x == SoundEffect_construct("jump", 0, options)
  IN IF HTMLAudio_volumeThrows(x.volume)
     THEN [m EXCEPT !.last = Event("SoundEffect", "threw", "run",
                                   [sound |-> Null, options |-> options])]
     ELSE [m EXCEPT !.sounds[s] = [x EXCEPT !.held = TRUE],
                    !.last = Event("SoundEffect", "done", "run",
                                   [sound |-> s, options |-> options])]

SoundEffect_new(name, clone, vol) ==
  SoundEffect_construct(name, clone, [volume |-> vol, playbackRate |-> Undefined])

SoundEffect_playing(x) == ~x.paused /\ x.pos > 0 /\ ~x.ended

\* Mutant of SoundEffect_load: every call makes a promise of its own.
SoundEffect_load_again(x) ==
  IF x.loaded THEN [x EXCEPT !.loadPromise = "resolved"]
  ELSE [x EXCEPT !.loadPromise = "pending", !.fetches = @ + 1]

\* load(): the shared promise; the first call makes it and, on an element
\* that has fetched nothing (readyState 0), calls audio.load().
SoundEffect_load(x) ==
  IF x.loadPromise # "none" THEN x
  ELSE IF x.loaded THEN [x EXCEPT !.loadPromise = "resolved"]
  ELSE [x EXCEPT !.loadPromise = "pending", !.fetches = @ + 1]

\* Object spread {...base, ...part}.
Merge(base, part) ==
  [k \in (DOMAIN base) \cup (DOMAIN part) |-> IF k \in DOMAIN part THEN part[k] ELSE base[k]]

\* Mutant of loadSettings: the settings merged over the stored item.
loadSettings_under(settings, store) ==
  IF store.state = "json" THEN Merge(store.blob, settings) ELSE settings

\* loadSettings(): the stored item parsed and merged over the settings; an
\* absent item changes nothing, an unparsable one throws and is caught.
loadSettings(settings, store) ==
  IF store.state = "json" THEN Merge(settings, store.blob) ELSE settings

\* The fields of an AudioManager.  musicPlayer is its MusicPlayer, reduced
\* to its identity, stored volume and mute flag; init is the state of the
\* per-definition promises of its initialize() call in flight.
NoManager ==
  [soundEffects |-> [n \in DefNames |-> Null], soundPools |-> [n \in DefNames |-> <<>>],
   settings |-> defaultSettings,
   musicPlayer |-> [id |-> Null, volume |-> defaultOptions.volume, muted |-> FALSE],
   init |-> [n \in DefNames |-> "none"]]

AudioManager_new(id, store) ==
  [NoManager EXCEPT !.musicPlayer.id = id,
                    !.musicPlayer.volume = defaultSettings.musicVolume,
                    !.settings = loadSettings(defaultSettings, store)]

\* The manager's state as one record, so that operations compose.
Mg ==
  [instance |-> instance, created |-> created, mgr |-> mgr, sounds |-> sounds,
   storage |-> storage, last |-> NoEvent]

getInstance(m) ==
  IF m.instance = Null
  THEN LET id == m.created + 1
       IN [m EXCEPT !.created = id, !.instance = id,
                    !.mgr[id] = AudioManager_new(id, m.storage),
                    !.last = Event("getInstance", "done", "new", [inst |-> id])]
  ELSE [m EXCEPT !.last = Event("getInstance", "done", "same", [inst |-> m.instance])]

freeSounds(m) == {s \in SoundIds : m.sounds[s].name = ""}
kthFree(m, k) ==
  CHOOSE s \in freeSounds(m) : Cardinality({u \in freeSounds(m) : u < s}) = k - 1

\* Mutant of updateVolumes: settings.musicMuted is not read.
updateVolumes_deaf(m, i) ==
  LET st == m.mgr[i].settings
  IN IF st.muted
     THEN [m EXCEPT !.mgr[i].musicPlayer.muted = TRUE]
     ELSE [m EXCEPT !.mgr[i].musicPlayer.muted = FALSE,
                    !.mgr[i].musicPlayer.volume =
                       Max(0, Min(Unit, Mul(st.musicVolume, st.masterVolume)))]

updateVolumes(m, i) ==
  LET st == m.mgr[i].settings
  IN IF st.muted \/ st.musicMuted
     THEN [m EXCEPT !.mgr[i].musicPlayer.muted = TRUE]
     ELSE [m EXCEPT !.mgr[i].musicPlayer.muted = FALSE,
                    !.mgr[i].musicPlayer.volume =
                       Max(0, Min(Unit, Mul(st.musicVolume, st.masterVolume)))]

AudioManager_initialize(m, i) ==
  LET slot(k) == kthFree(m, k)
      made(s) == CHOOSE k \in 1..Len(Defs) : slot(k) = s
  IN [m EXCEPT
        !.sounds = [s \in SoundIds |->
           IF \E k \in 1..Len(Defs) : slot(k) = s
           THEN [SoundEffect_load(SoundEffect_new(Defs[made(s)].name, 0, Defs[made(s)].volume))
                   EXCEPT !.awaiting = i]
           ELSE m.sounds[s]],
        !.mgr[i].init = [n \in DefNames |-> "pending"]]

createSoundPool(m, i, name, vol) ==
  LET slot(k) == kthFree(m, k)
  IN [m EXCEPT
        !.sounds = [s \in SoundIds |->
           IF \E k \in 1..poolSize : slot(k) = s
           THEN SoundEffect_new(name, CHOOSE k \in 1..poolSize : slot(k) = s, vol)
           ELSE m.sounds[s]],
        !.mgr[i].soundPools[name] = [k \in 1..poolSize |-> slot(k)]]

\* await Promise.all(loadPromises) and the rest of initialize().
initializeJoin(m, i) ==
  IF \E n \in DefNames : m.mgr[i].init[n] = "pending"
  THEN m
  ELSE LET m1 == updateVolumes(m, i)
       IN [m1 EXCEPT !.mgr[i].init = [n \in DefNames |-> "none"],
                     !.last = Event("initialize", "done", "run",
                                    [inst |-> i, ok |-> {n \in DefNames : m.mgr[i].init[n] = "ok"}])]

\* The callback of initialize() for one definition, after sound.load().
initializeLoaded(m, i, s) ==
  LET x == m.sounds[s]
      m1 == [m EXCEPT !.mgr[i].soundEffects[x.name] = s, !.mgr[i].init[x.name] = "ok",
                      !.sounds[s].awaiting = Null]
      m2 == IF x.name \in PooledNames THEN createSoundPool(m1, i, x.name, x.volume) ELSE m1
  IN initializeJoin(m2, i)

\* Mutant of initializeFailed: a sound whose load failed is inserted as well.
initializeFailed_insert(m, i, s) == initializeLoaded(m, i, s)

initializeFailed(m, i, s) ==
  initializeJoin([m EXCEPT !.mgr[i].init[m.sounds[s].name] = "failed",
                           !.sounds[s].awaiting = Null], i)

\* The tail of SoundEffect.play(): the overrides, position, audio.play().
SoundEffect_start(m, s, options, accept) ==
  [m EXCEPT !.sounds[s].level = IF options.volume # Undefined
                                THEN Max(0, Min(Unit, options.volume))
                                ELSE m.sounds[s].volume,
            !.sounds[s].rate = IF options.playbackRate # Undefined
                               THEN Max(MinRate, Min(MaxRate, options.playbackRate))
                               ELSE @,
            !.sounds[s].pos = 0, !.sounds[s].ended = FALSE,
            !.sounds[s].paused = IF accept THEN FALSE ELSE @]

\* Mutant of SoundEffect_play: the error flag is not read.
SoundEffect_play_errored(m, s, options, accept) ==
  IF ~m.sounds[s].loaded /\ ~m.sounds[s].error /\ SoundEffect_load(m.sounds[s]).loadPromise = "pending"
  THEN [m EXCEPT !.sounds[s] = [SoundEffect_load(@) EXCEPT !.plays = TRUE,
                                                            !.playVolume = options.volume]]
  ELSE SoundEffect_start(m, s, options, accept)

\* play(options).  Calls suspended on the same load resume in the order they
\* were made: the last one's volume and the last rate override given remain.
SoundEffect_play(m, s, options, accept) ==
  LET x == m.sounds[s]
      y == SoundEffect_load(x)
  IN IF ~x.loaded /\ ~x.error
     THEN CASE y.loadPromise = "rejected" -> m
            [] y.loadPromise = "resolved" -> SoundEffect_start(m, s, options, accept)
            [] OTHER ->
                 [m EXCEPT !.sounds[s] =
                    [y EXCEPT !.plays = TRUE, !.playVolume = options.volume,
                              !.playRate = IF options.playbackRate # Undefined
                                           THEN options.playbackRate ELSE x.playRate]]
     ELSE IF x.error THEN m ELSE SoundEffect_start(m, s, options, accept)

\* Mutant of SoundEffect_setVolume: stored, not applied to the element.
SoundEffect_setVolume_stored(m, s, v) ==
  [m EXCEPT !.sounds[s].volume = Max(0, Min(Unit, v)),
            !.last = Event("SoundEffect.setVolume", "done", "run",
                           [sound |-> s, volume |-> v])]

\* setVolume(volume) of a SoundEffect.
SoundEffect_setVolume(m, s, v) ==
  LET nv == Max(0, Min(Unit, v))
  IN [m EXCEPT !.sounds[s].volume = nv, !.sounds[s].level = nv,
               !.last = Event("SoundEffect.setVolume", "done", "run",
                              [sound |-> s, volume |-> v])]

\* load() called by the holder of sound s: the promise it gets is new or
\* the shared one, and is pending, resolved or rejected.
SoundEffect_loadCall(m, s) ==
  LET x == m.sounds[s]
      y == SoundEffect_load(x)
  IN [m EXCEPT !.sounds[s] = [y EXCEPT !.loads = (y.loadPromise = "pending")],
               !.last = Event("SoundEffect.load", y.loadPromise,
                              IF x.loadPromise = "none" THEN "new" ELSE "shared",
                              [sound |-> s])]

\* play(options) called by the holder of sound s.
SoundEffect_playCall(m, s, options, accept) ==
  [SoundEffect_play(m, s, options, accept)
     EXCEPT !.last = Event("SoundEffect.play", "done", "run",
                           [sound |-> s, options |-> options])]

SoundEffect_stop(x) == [x EXCEPT !.paused = TRUE, !.pos = 0, !.ended = FALSE]

SoundEffect_dispose(x) == [SoundEffect_stop(x) EXCEPT !.src = FALSE, !.loadPromise = "none"]

\* Mutant of getPooledSound: the first clone, whether it is playing or not.
getPooledSound_first(m, i, name) ==
  LET pool == m.mgr[i].soundPools[name]
  IN IF Len(pool) = 0 THEN Null ELSE pool[1]

getPooledSound(m, i, name) ==
  LET pool == m.mgr[i].soundPools[name]
      available == {k \in 1..Len(pool) : ~SoundEffect_playing(m.sounds[pool[k]])}
  IN IF Len(pool) = 0 THEN Null
     ELSE IF available # {}
          THEN pool[CHOOSE k \in available : \A j \in available : k <= j]
          ELSE pool[1]

\* Mutant of finalVolume: the levels the manager was constructed with.
finalVolume_cached(st, options) ==
  Mul(Mul(IF options.volume # Undefined THEN options.volume ELSE Unit,
          defaultSettings.sfxVolume), defaultSettings.masterVolume)

\* finalVolume of playSound(): the override or 1.0, times the sound-effect
\* volume, times the master volume of the settings given.
finalVolume(st, options) ==
  Mul(Mul(IF options.volume # Undefined THEN options.volume ELSE Unit, st.sfxVolume),
      st.masterVolume)

\* Mutant of resolveSound: the catalog entry before the pool.
resolveSound_catalogFirst(m, i, name) ==
  IF m.mgr[i].soundEffects[name] # Null THEN m.mgr[i].soundEffects[name]
  ELSE getPooledSound(m, i, name)

\* The instance playSound() plays: getPooledSound(name) || soundEffects.get(name).
resolveSound(m, i, name) ==
  LET pooled == getPooledSound(m, i, name)
  IN IF pooled # Null THEN pooled ELSE m.mgr[i].soundEffects[name]

\* The try block of playSound().  The label names the instance the call
\* resolved and how: "pool" (a clone that is not playing), "steal" (the first
\* clone, all are playing), "catalog" or "none" (not found).
playSoundUnmuted(m, i, name, options, accept) ==
  LET st == m.mgr[i].settings
      sound == resolveSound(m, i, name)
      pool == m.mgr[i].soundPools[name]
      how == IF sound = Null THEN "none"
             ELSE IF \E k \in 1..Len(pool) : pool[k] = sound
                  THEN IF \A k \in 1..Len(pool) : SoundEffect_playing(m.sounds[pool[k]])
                       THEN "steal" ELSE "pool"
                  ELSE "catalog"
      label == Event("playSound", "done", how,
                     [inst |-> i, name |-> name, sound |-> sound, options |-> options])
  IN IF sound = Null
     THEN [m EXCEPT !.last = label]
     ELSE [SoundEffect_play(m, sound, [options EXCEPT !.volume = finalVolume(st, options)],
                            accept)
             EXCEPT !.last = label]

\* Mutant of AudioManager_playSound: the mute flags are not read.
AudioManager_playSound_deaf(m, i, name, options, accept) ==
  playSoundUnmuted(m, i, name, options, accept)

\* playSound(name, options): nothing when muted, else the try block.
AudioManager_playSound(m, i, name, options, accept) ==
  LET st == m.mgr[i].settings
  IN IF st.muted \/ st.sfxMuted
     THEN [m EXCEPT !.last = Event("playSound", "done", "muted",
                                   [inst |-> i, name |-> name, sound |-> Null,
                                    options |-> options])]
     ELSE playSoundUnmuted(m, i, name, options, accept)

\* Mutant of AudioManager_convenience: every method plays the first sound of
\* the catalog.
AudioManager_convenience_first(m, i, method, accept) ==
  [AudioManager_playSound(m, i, Defs[1].name, NoOptions, accept) EXCEPT !.last.op = method]

\* jump(), land(), ... gameOver(): `await this.playSound(name)`.  The label
\* is playSound's, under the method's name.
AudioManager_convenience(m, i, method, accept) ==
  [AudioManager_playSound(m, i, convenience[method], NoOptions, accept) EXCEPT
     !.last.op = method]

\* canplaythrough on sound s: the listeners of the constructor and of
\* load(), then the awaits suspended on the load, in the order they were made.
soundLoaded(m, s, accept) ==
  LET x == m.sounds[s]
      m1 == [m EXCEPT !.sounds[s].loaded = TRUE, !.sounds[s].error = FALSE,
                      !.sounds[s].loadPromise = IF @ = "pending" THEN "resolved" ELSE @,
                      !.sounds[s].loads = FALSE]
      m2 == IF x.awaiting # Null THEN initializeLoaded(m1, x.awaiting, s) ELSE m1
  IN IF x.plays
     THEN SoundEffect_start([m2 EXCEPT !.sounds[s].plays = FALSE, !.sounds[s].playVolume = 0,
                                       !.sounds[s].playRate = Undefined],
                            s, [volume |-> x.playVolume, playbackRate |-> x.playRate], accept)
     ELSE m2

\* error on sound s: load() rejects, initialize() and play() catch.
soundFailed(m, s) ==
  LET x == m.sounds[s]
      m1 == [m EXCEPT !.sounds[s].error = TRUE, !.sounds[s].loaded = FALSE,
                      !.sounds[s].loadPromise = IF @ = "pending" THEN "rejected" ELSE @,
                      !.sounds[s].plays = FALSE, !.sounds[s].playVolume = 0,
                      !.sounds[s].playRate = Undefined, !.sounds[s].loads = FALSE]
  IN IF x.awaiting # Null THEN initializeFailed(m1, x.awaiting, s) ELSE m1

\* Mutant of saveSettings: the settings of the class are written.
saveSettings_defaults(m, i, writeOk) ==
  IF writeOk THEN [m EXCEPT !.storage = [state |-> "json", blob |-> defaultSettings]] ELSE m

saveSettings(m, i, writeOk) ==
  IF writeOk THEN [m EXCEPT !.storage = [state |-> "json", blob |-> m.mgr[i].settings]] ELSE m

AudioManager_updateSettings(m, i, newSettings, writeOk) ==
  LET m1 == [m EXCEPT !.mgr[i].settings = Merge(@, newSettings)]
      m2 == saveSettings(updateVolumes(m1, i), i, writeOk)
  IN [m2 EXCEPT !.last = Event("updateSettings", "done", "run",
                               [inst |-> i, newSettings |-> newSettings, ok |-> writeOk])]

\* Mutant of AudioManager_dispose: the singleton reference is kept.
AudioManager_dispose_keep(m, i) ==
  [m EXCEPT !.mgr[i].soundEffects = [n \in DefNames |-> Null],
            !.mgr[i].soundPools = [n \in DefNames |-> <<>>],
            !.last = Event("dispose", "done", "run", [inst |-> i])]

AudioManager_dispose(m, i) ==
  LET pools == UNION {{m.mgr[i].soundPools[n][k] : k \in 1..Len(m.mgr[i].soundPools[n])} : n \in DefNames}
      mine == {m.mgr[i].soundEffects[n] : n \in DefNames} \cup pools
  IN [m EXCEPT
        !.sounds = [s \in SoundIds |-> IF s \in mine THEN SoundEffect_dispose(@[s]) ELSE @[s]],
        !.mgr[i].soundEffects = [n \in DefNames |-> Null],
        !.mgr[i].soundPools = [n \in DefNames |-> <<>>],
        !.instance = Null,
        !.last = Event("dispose", "done", "run", [inst |-> i])]

referencedSounds(m) ==
  UNION {{m.mgr[i].soundEffects[n] : n \in DefNames} : i \in InstanceIds}
  \cup UNION {{m.mgr[i].soundPools[n][k] : k \in 1..Len(m.mgr[i].soundPools[n])} :
                i \in InstanceIds, n \in DefNames}
  \cup {s \in SoundIds : m.sounds[s].awaiting # Null \/ m.sounds[s].plays}
  \cup {s \in SoundIds : m.sounds[s].held}

\* The instances on which dispose() has returned, after the step to m.
Disposed(m) ==
  IF m.last.op = "dispose" THEN disposed \cup {m.last.arg.inst} ELSE disposed

\* The next state is m, with the sounds nothing refers to collected.
CommitManager(m) ==
  /\ instance' = m.instance
  /\ created' = m.created
  /\ mgr' = m.mgr
  /\ sounds' = [s \in SoundIds |-> IF s \in referencedSounds(m) THEN m.sounds[s] ELSE FreeSound]
  /\ storage' = m.storage
  /\ last' = m.last
  /\ wav' = wav
  /\ disposed' = Disposed(m)
  /\ UNCHANGED <<musicVars, stopped>>

Live == 1..created

GetInstance ==
  /\ instance = Null => created < MaxInstances
  /\ CommitManager(getInstance(Mg))

Initialize ==
  \E i \in Live :
    /\ \A n \in DefNames : mgr[i].init[n] = "none"
    /\ Cardinality(freeSounds(Mg)) >=
         Len(Defs) + poolSize * Cardinality(DefNames \cap PooledNames)
    /\ CommitManager(AudioManager_initialize(Mg, i))

PlaySound ==
  \E i \in Live, name \in DefNames, accept \in BOOLEAN :
    CommitManager(AudioManager_playSound(Mg, i, name, NoOptions, accept))

\* playSound(name, options) with overrides.
PlaySoundWith ==
  \E i \in Live, name \in DefNames, options \in OverrideInputs, accept \in BOOLEAN :
    CommitManager(AudioManager_playSound(Mg, i, name, options, accept))

\* One of the quick-access methods, of a sound of the catalog in use.
Convenience ==
  \E i \in Live, method \in Methods, accept \in BOOLEAN :
    /\ convenience[method] \in DefNames
    /\ CommitManager(AudioManager_convenience(Mg, i, method, accept))

UpdateSettings ==
  \E i \in Live, newSettings \in SettingsInputs, writeOk \in BOOLEAN :
    CommitManager(AudioManager_updateSettings(Mg, i, newSettings, writeOk))

\* updateSettings() of the mute flags and the master volume; the write succeeds.
UpdateSfxSettings ==
  \E i \in Live, newSettings \in SfxSettingsInputs :
    CommitManager(AudioManager_updateSettings(Mg, i, newSettings, TRUE))

\* updateSettings() with any values; localStorage.setItem may throw.
UpdateSettingsAny ==
  \E i \in Live, newSettings \in SettingsWrites, writeOk \in BOOLEAN :
    CommitManager(AudioManager_updateSettings(Mg, i, newSettings, writeOk))

\* The next state is player s under manager state m, the exported manager's
\* music player being the player.
CommitBoth(s, m) ==
  /\ audio' = [i \in AudioIds |-> IF i \in referenced(s) THEN s.audio[i] ELSE FreeAudio]
  /\ currentTrack' = s.currentTrack
  /\ loadedTracks' = s.loadedTracks
  /\ volume' = s.volume
  /\ muted' = s.muted
  /\ fadeIntervals' = s.fadeIntervals
  /\ calls' = s.calls
  /\ stride' = stride
  /\ wav' = wav
  /\ stopped' = Stopped(s)
  /\ disposed' = disposed
  /\ instance' = m.instance
  /\ created' = m.created
  /\ mgr' = [m.mgr EXCEPT ![1].musicPlayer.volume = s.volume, ![1].musicPlayer.muted = s.muted]
  /\ sounds' = m.sounds
  /\ storage' = m.storage
  /\ last' = m.last

\* playMusic(track) on the exported manager.
PlayMusic ==
  \E c \in Slots, track \in PlayNames, accept \in BOOLEAN :
    /\ FreeSlot(c)
    /\ loadedTracks[track] = Null => Cardinality(Alive) < MaxAudio
    /\ accept => (loadedTracks[track] # Null /\ audio[loadedTracks[track]].src)
    /\ CommitBoth(AudioManager_playMusic(St, mgr[1].settings, c, track, accept), Mg)

\* updateSettings() on the exported manager, whose updateVolumes() reaches
\* the player.
UpdateMusicSettings ==
  \E newSettings \in MusicSettingsInputs :
    LET m == AudioManager_updateSettings(Mg, 1, newSettings, TRUE)
    IN CommitBoth(applyComposite(St, m.mgr[1].settings), m)

DisposeManager ==
  \E i \in Live : CommitManager(AudioManager_dispose(Mg, i))

Waited(s) == sounds[s].awaiting # Null \/ sounds[s].plays \/ sounds[s].loads

\* canplaythrough on a sound whose load is awaited.
SoundLoads ==
  \E s \in SoundIds, accept \in BOOLEAN :
    /\ Waited(s) /\ sounds[s].src
    /\ CommitManager(soundLoaded(Mg, s, accept))

\* error on a sound whose load is awaited.
SoundFails ==
  \E s \in SoundIds :
    /\ Waited(s)
    /\ CommitManager(soundFailed(Mg, s))

\* A clone nobody has loaded fetches its source by itself (preload =
\* 'metadata'): canplaythrough or error reach the constructor's listeners.
CloneReady ==
  \E s \in SoundIds :
    /\ sounds[s].src /\ sounds[s].loadPromise = "none" /\ ~sounds[s].loaded /\ ~sounds[s].error
    /\ CommitManager([Mg EXCEPT !.sounds[s].loaded = TRUE])

CloneError ==
  \E s \in SoundIds :
    /\ sounds[s].src /\ sounds[s].loadPromise = "none" /\ ~sounds[s].loaded /\ ~sounds[s].error
    /\ CommitManager([Mg EXCEPT !.sounds[s].error = TRUE])

Held == {s \in SoundIds : sounds[s].held}

ConstructSound ==
  \E options \in SoundOptionInputs :
    /\ Held = {}
    /\ CommitManager(SoundEffect_constructCall(Mg, 1, options))

LoadSound ==
  \E s \in Held : CommitManager(SoundEffect_loadCall(Mg, s))

PlayOnSound ==
  \E s \in Held, options \in PlayInputs, accept \in BOOLEAN :
    CommitManager(SoundEffect_playCall(Mg, s, options, accept))

SetSoundVolume ==
  \E s \in Held, v \in VolumeInputs \cup {Tenths(3)} :
    CommitManager(SoundEffect_setVolume(Mg, s, v))

\* Playback of a started sound moves past position 0.
Advance ==
  \E s \in SoundIds :
    /\ ~sounds[s].paused /\ sounds[s].pos = 0 /\ sounds[s].src
    /\ CommitManager([Mg EXCEPT !.sounds[s].pos = 1])

\* Playback reaches the end of the sound; browsers then pause the element
\* or leave it unpaused.
Ends ==
  \E s \in SoundIds, p \in BOOLEAN :
    /\ SoundEffect_playing(sounds[s])
    /\ CommitManager([Mg EXCEPT !.sounds[s].ended = TRUE, !.sounds[s].paused = p])

\* The state after the module is loaded: its last line has called getInstance().
ModuleLoaded(store) ==
  /\ storage = store
  /\ instance = 1
  /\ created = 1
  /\ mgr = [i \in InstanceIds |-> IF i = 1 THEN AudioManager_new(1, store) ELSE NoManager]
  /\ sounds = [s \in SoundIds |-> FreeSound]
  /\ disposed = {}

(* -------------------------- AudioGenerator ---------------------------- *)

\* A Float32 sample is a multiple of 1/Unit; NaN is the one value below
\* that is not a number.
NaN == 1000000
\* 0x7FFF, the factor of the 16-bit conversion.
PcmScale == 32767

\* No buffer has been rendered.
NoWav == [audioBuffer |-> [length |-> 0, sampleRate |-> 0, channelData |-> <<>>],
          blob |-> <<>>]

\* audioContext.sampleRate, and the values a rendered sample may have: below
\* -1, -1, just below 0, 0.5, 1, above 1, and NaN.
SampleRates == {8000, 44100, 48000}
SampleInputs == {-(2 * Unit), -Unit, -1, Unit \div 2, Unit, Unit + 1, NaN}
BufferInputs ==
  UNION { { [length |-> n, sampleRate |-> r, channelData |-> d] :
              r \in SampleRates, d \in [1..n -> SampleInputs] } : n \in 0..MaxFrames }

\* The code units of the four tags of the header.
charCodes(string) ==
  CASE string = "RIFF" -> <<82, 73, 70, 70>>
    [] string = "WAVE" -> <<87, 65, 86, 69>>
    [] string = "fmt " -> <<102, 109, 116, 32>>
    [] string = "data" -> <<100, 97, 116, 97>>

\* DataView over an ArrayBuffer: byte k of the buffer is view[k + 1].
setUint8(view, offset, value) == [view EXCEPT ![offset + 1] = value % 256]
setUint16(view, offset, value) ==
  setUint8(setUint8(view, offset, value % 256), offset + 1, (value \div 256) % 256)
setUint32(view, offset, value) ==
  setUint16(setUint16(view, offset, value % 65536), offset + 2, (value \div 65536) % 65536)
\* The number-to-integer conversion of setInt16: NaN becomes 0, the fraction
\* is dropped, and the result is taken modulo 2^16.
Truncate(num, den) == IF num >= 0 THEN num \div den ELSE -((-num) \div den)
setInt16(view, offset, value) ==
  setUint16(view, offset, IF value = NaN THEN 0 ELSE value % 65536)
getUint16(view, offset) == view[offset + 1] + 256 * view[offset + 2]
getUint32(view, offset) == getUint16(view, offset) + 65536 * getUint16(view, offset + 2)
getInt16(view, offset) ==
  LET u == getUint16(view, offset) IN IF u >= 32768 THEN u - 65536 ELSE u

writeString(view, offset, string) ==
  LET codes == charCodes(string)
  IN [k \in 1..Len(view) |->
        IF k - offset \in 1..Len(codes) THEN codes[k - offset] ELSE view[k]]

\* Math.max(-1, Math.min(1, x)): NaN passes through both.
clampSample(x) == IF x = NaN THEN NaN ELSE Max(-Unit, Min(Unit, x))

\* Mutant of pcmSample: the sample is scaled without being clamped.
pcmSample_unclamped(x) ==
  IF x = NaN THEN NaN ELSE Truncate(x * PcmScale, Unit)

\* The number handed to setInt16 for sample x, its fraction dropped.
pcmSample(x) ==
  LET sample == clampSample(x)
  IN IF sample = NaN THEN NaN ELSE Truncate(sample * PcmScale, Unit)

\* The loop over the frames, from frame i on.
RECURSIVE writeSamples(_, _, _)
writeSamples(view, channelData, i) ==
  IF i > Len(channelData) THEN view
  ELSE writeSamples(setInt16(view, 44 + 2 * (i - 1), pcmSample(channelData[i])),
                    channelData, i + 1)

\* The bytes of the Blob audioBufferToWav() resolves with.
audioBufferToWav(audioBuffer) ==
  LET length == audioBuffer.length
      sampleRate == audioBuffer.sampleRate
      v0 == [k \in 1..(44 + length * 2) |-> 0]
      v1 == writeString(v0, 0, "RIFF")
      v2 == setUint32(v1, 4, 36 + length * 2)
      v3 == writeString(v2, 8, "WAVE")
      v4 == writeString(v3, 12, "fmt ")
      v5 == setUint32(v4, 16, 16)
      v6 == setUint16(v5, 20, 1)
      v7 == setUint16(v6, 22, 1)
      v8 == setUint32(v7, 24, sampleRate)
      v9 == setUint32(v8, 28, sampleRate * 2)
      v10 == setUint16(v9, 32, 2)
      v11 == setUint16(v10, 34, 16)
      v12 == writeString(v11, 36, "data")
      v13 == setUint32(v12, 40, length * 2)
  IN writeSamples(v13, audioBuffer.channelData, 1)

\* audioBufferToWav(audioBuffer), the last step of every generate method.
Encode ==
  /\ wav.blob = <<>>
  /\ wav' = [wav EXCEPT !.blob = audioBufferToWav(wav.audioBuffer)]
  /\ UNCHANGED <<musicVars, managerVars, last, stopped, disposed>>

(* --------------------------- specifications --------------------------- *)

\* No call is suspended: the caller awaits each call before the next.
Quiet == \A c \in Slots : calls[c].pc = "idle"

\* The player after construction.
FreshMusic ==
  /\ audio = [i \in AudioIds |-> FreeAudio]
  /\ currentTrack = Null
  /\ loadedTracks = [n \in TrackNames |-> Null]
  /\ volume = defaultOptions.volume
  /\ muted = FALSE
  /\ fadeIntervals = {}
  /\ calls = [c \in Slots |-> IdleCall]
  /\ last = NoEvent
  /\ stopped = FALSE

FreshPlayer == FreshMusic /\ wav = NoWav

Fresh == FreshPlayer /\ ModuleLoaded(AbsentStore)

Init == Fresh /\ stride = TickStride

\* Calls issued one at a time; settings, dispose and the environment interleave.
Next ==
  \/ (Quiet /\ Play) \/ (Quiet /\ Stop) \/ (Quiet /\ Pause) \/ (Quiet /\ Resume)
  \/ SetVolume \/ SetMuted \/ Dispose
  \/ LoadOk \/ LoadFail \/ PlaySettles \/ Tick

Spec == Init /\ [][Next]_vars

InitOverlap == Fresh /\ stride = steps

\* Calls issued while earlier calls are still suspended.
NextOverlap ==
  \/ Play \/ Stop \/ Pause \/ Resume
  \/ Dispose
  \/ LoadOk \/ LoadFail \/ PlaySettles \/ Tick

SpecOverlap == InitOverlap /\ [][NextOverlap]_vars

\* The continuation of call c runs, or one of its ramps' timers fires.
Progress(c) ==
  \/ calls'[c] # calls[c]
  \/ {r \in fadeIntervals' : r.owner = c} # {r \in fadeIntervals : r.owner = c}

\* Overlapping calls under fair scheduling: for each suspended call, the load
\* it awaits fires canplaythrough or error, the play promise it awaits is
\* settled by the browser, and the timers of its ramps fire.
Fairness ==
  \A c \in Slots :
    /\ WF_vars((LoadOk \/ LoadFail) /\ Progress(c))
    /\ WF_vars(PlaySettles /\ Progress(c))
    /\ WF_vars(Tick /\ Progress(c))

SpecFair == InitOverlap /\ [][NextOverlap]_vars /\ Fairness

\* Overlapping play() calls alone, with one more element.
NextCrossfades == PlayOver \/ LoadOk \/ PlaySettles \/ Tick

SpecCrossfades == InitOverlap /\ [][NextCrossfades]_vars

InitManager ==
  /\ FreshPlayer /\ stride = TickStride
  /\ \E store \in StorageInputs : ModuleLoaded(store)

\* The life of the singleton: construction, initialize() and its loads,
\* settings, dispose, on every instance a caller may still hold.
NextManager ==
  \/ GetInstance \/ Initialize \/ UpdateSettings \/ DisposeManager
  \/ SoundLoads \/ SoundFails

SpecManager == InitManager /\ [][NextManager]_vars

InitPool == Fresh /\ stride = TickStride

\* Sound effects on the instance the module exports: initialize() and its
\* loads, playSound(), and the loading and playback of the sounds.
NextPool ==
  \/ Initialize \/ SoundLoads \/ SoundFails
  \/ PlaySound \/ CloneReady \/ CloneError \/ Advance \/ Ends

SpecPool == InitPool /\ [][NextPool]_vars

\* Sound effects under changing settings: playSound() with overrides
\* between calls of updateSettings().
NextSfx ==
  \/ Initialize \/ SoundLoads \/ SoundFails
  \/ PlaySoundWith \/ UpdateSfxSettings

SpecSfx == InitPool /\ [][NextSfx]_vars

\* The quick-access methods before, during and after initialize().
NextQuick ==
  \/ Initialize \/ SoundLoads \/ SoundFails
  \/ Convenience \/ CloneReady \/ CloneError \/ Advance

SpecQuick == InitPool /\ [][NextQuick]_vars

\* A SoundEffect in the hands of a caller: construction, load(), play()
\* with overrides, setVolume(), and the loading and playback of its element.
NextSound ==
  \/ ConstructSound \/ LoadSound \/ PlayOnSound \/ SetSoundVolume
  \/ SoundLoads \/ SoundFails \/ CloneReady \/ CloneError \/ Advance \/ Ends

SpecSound == InitPool /\ [][NextSound]_vars

\* The two setVolume() of the subsystem side by side: a music track
\* started, faded, muted and unmuted, and a SoundEffect constructed, each
\* with its volume set by its holder.
NextVolume ==
  \/ (Quiet /\ Play) \/ LoadOk \/ PlaySettles \/ Tick \/ SetVolume \/ SetMuted
  \/ ConstructSound \/ SetSoundVolume

SpecVolume == InitPool /\ [][NextVolume]_vars

InitMusic ==
  /\ FreshPlayer /\ stride = TickStride
  /\ \E store \in MusicStoreInputs : ModuleLoaded(store)

\* The music methods of the exported manager, constructed from the store:
\* playMusic, stopMusic, pauseMusic, resumeMusic one at a time, and
\* updateSettings.
NextMusic ==
  \/ (Quiet /\ PlayMusic) \/ (Quiet /\ Stop) \/ (Quiet /\ Pause) \/ (Quiet /\ Resume)
  \/ UpdateMusicSettings
  \/ LoadOk \/ PlaySettles \/ Tick

SpecMusic == InitMusic /\ [][NextMusic]_vars

InitSettings ==
  /\ FreshPlayer /\ stride = TickStride
  /\ \E store \in StoredInputs : ModuleLoaded(store)

\* The settings through the life of the singleton: construction from the
\* store, updateSettings() and its write, dispose.
NextSettings == GetInstance \/ UpdateSettingsAny \/ DisposeManager

SpecSettings == InitSettings /\ [][NextSettings]_vars

\* The WAV encoder on the buffers the generate methods render.
InitWav ==
  /\ FreshMusic /\ ModuleLoaded(AbsentStore) /\ stride = TickStride
  /\ \E audioBuffer \in BufferInputs : wav = [audioBuffer |-> audioBuffer, blob |-> <<>>]

NextWav == Encode

SpecWav == InitWav /\ [][NextWav]_vars

\* Every callback of every ramp is a step of its own, and nothing but the
\* ramp's timer touches the player while a call is suspended.
InitRamp == Fresh /\ stride = 1

NextRamp ==
  \/ (Quiet /\ Play) \/ (Quiet /\ Stop) \/ (Quiet /\ Pause) \/ (Quiet /\ Resume)
  \/ (Quiet /\ SetVolume)
  \/ LoadOk \/ PlaySettles \/ Tick

SpecRamp == InitRamp /\ [][NextRamp]_vars

\* Every callback a step of its own, while setMuted() and dispose() may be
\* called at any moment.
NextTimers ==
  \/ (Quiet /\ Play) \/ (Quiet /\ Stop) \/ (Quiet /\ Pause) \/ (Quiet /\ Resume)
  \/ SetMuted \/ Dispose
  \/ LoadOk \/ LoadFail \/ PlaySettles \/ Tick

SpecTimers == InitRamp /\ [][NextTimers]_vars

(* ------------------------ claims: MusicPlayer ------------------------- *)

\* The step in which call c returns to its caller with outcome ev.
Returns(c, op, ev) ==
  calls[c].op = op /\ calls[c].pc # "idle" /\ calls'[c].pc = "idle"
  /\ last'.op = op /\ last'.ev = ev

\* C1: a crossfade in flight assigns the current track only in the step in
\* which it returns, with its target, and never while one of its two ramps is
\* live: both ramps were started together, the last live one terminates in
\* that very step and none is left after it.  While at most one call is in
\* flight, nothing else moves the current track from one track to another.
InFlight == {c \in Slots : calls[c].pc # "idle"}

C1_CrossfadeAtomic ==
  [][ /\ \A c \in Slots :
           ( /\ calls[c].pc \in {"xf_play_wait", "xf_wait"}
             /\ calls'[c] # calls[c]
             /\ currentTrack' # currentTrack /\ currentTrack' = calls[c].audio )
           => /\ calls[c].pc = "xf_wait" /\ Returns(c, "play", "done")
              /\ \A r \in fadeIntervals' : r.owner # c
              /\ \A r \in fadeIntervals : r.owner = c => rampDone(r, nextStep(r, stride))
              /\ audio'[calls[c].from].paused /\ audio'[calls[c].from].pos = 0
      /\ \A c \in Slots :
           (calls[c].pc = "xf_play_wait" /\ calls'[c].pc = "xf_wait")
           => {r.kind : r \in {q \in fadeIntervals' : q.owner = c}} = {"in", "out"}
      /\ ( /\ Cardinality(InFlight) <= 1
           /\ currentTrack # Null /\ currentTrack' # Null /\ currentTrack' # currentTrack )
         => \E c \in InFlight :
              /\ calls[c].pc = "xf_wait" /\ Returns(c, "play", "done")
              /\ calls[c].audio = currentTrack'
              /\ \A r \in fadeIntervals' : r.owner # c ]_vars

\* C1, witness: a crossfade has just promoted its target, which plays at the
\* stored volume, and has stopped and rewound the track it replaced.
C1_Witness ==
  /\ last = Event("play", "done", "xf_wait", Null)
  /\ fadeIntervals = {}
  /\ currentTrack # Null /\ ~audio[currentTrack].paused
  /\ audio[currentTrack].volume = volume
  /\ \E n \in TrackNames :
       /\ loadedTracks[n] # Null /\ loadedTracks[n] # currentTrack
       /\ audio[loadedTracks[n]].paused /\ audio[loadedTracks[n]].pos = 0
       /\ audio[loadedTracks[n]].volume = 0

\* C2: when pause() has returned and a track is current, its transport is paused.
C2_PauseHaltsTransport ==
  (last.op = "pause" /\ last.ev = "done" /\ currentTrack # Null)
    => audio[currentTrack].paused

\* C3: when stop() returns after being called with a current track, that
\* track is paused at position 0 and the current slot is empty; stop() fades
\* only if unmuted; stop() without a current track changes nothing.
C3_StopHaltsTrack ==
  [][ /\ \A c \in Slots :
           (Returns(c, "stop", "done") /\ calls[c].pc = "stop_wait")
             => /\ audio'[calls[c].audio].paused
                /\ audio'[calls[c].audio].pos = 0
                /\ currentTrack' = Null
      /\ (last' = Event("stop", "done", "run", Null) /\ currentTrack # Null)
           => /\ audio'[currentTrack].paused /\ audio'[currentTrack].pos = 0
              /\ currentTrack' = Null
      /\ (\E c \in Slots : calls[c].pc = "idle" /\ calls'[c].pc = "stop_wait") => ~muted
      /\ last' = Event("stop", "done", "idle", Null)
           => UNCHANGED <<audio, currentTrack, loadedTracks, volume, muted, fadeIntervals, calls>>
    ]_vars

\* C4: no call ever returns a rejected promise to its caller.
C4_NeverThrows == last.ev # "throw"

\* C5: in a step in which play() starts the transport of its target, the
\* target's output level is 0.
C5_SilentStart ==
  [][ \A c \in Slots :
        ( /\ calls[c].pc \in {"idle", "load_wait"}
          /\ calls'[c].pc \in {"play_wait", "xf_play_wait"}
          /\ calls'[c].ok
          /\ audio[calls'[c].audio].paused /\ ~audio'[calls'[c].audio].paused )
        => audio'[calls'[c].audio].volume = 0 ]_vars

\* C6: setMuted(true) sets the current track's output to 0 and leaves its
\* transport alone, whether or not the player was muted before;
\* setMuted(false) sets the output to the stored volume; the stored volume is
\* the clamped argument of the last setVolume, muted or not; setVolume while
\* muted changes no output level.
C6_MuteAndVolume ==
  [][ /\ (last'.op = "setMuted" /\ last'.arg = TRUE /\ currentTrack # Null)
           => /\ muted' /\ audio'[currentTrack].volume = 0
              /\ audio'[currentTrack].paused = audio[currentTrack].paused
              /\ audio'[currentTrack].pos = audio[currentTrack].pos
              /\ currentTrack' = currentTrack /\ volume' = volume
      /\ (last'.op = "setMuted" /\ last'.arg = FALSE /\ currentTrack # Null)
           => /\ ~muted' /\ audio'[currentTrack].volume = volume
              /\ volume' = volume /\ currentTrack' = currentTrack
      /\ last'.op = "setVolume"
           => /\ volume' = Max(0, Min(Unit, last'.arg))
              /\ muted => audio' = audio
      /\ volume' # volume => last'.op = "setVolume"
    ]_vars

\* C6, witness: setVolume has just stored a new volume while the player is
\* muted: the current track keeps playing, with no live ramp, at level 0.
C6_Witness ==
  /\ last = Event("setVolume", "done", "run", Unit + (Unit \div 2))
  /\ muted /\ volume = Unit
  /\ currentTrack # Null /\ ~audio[currentTrack].paused /\ audio[currentTrack].pos = 1
  /\ fadeIntervals = {} /\ audio[currentTrack].volume = 0

(* ------------------ claims: AudioManager, SoundEffect ----------------- *)

PoolOf(i, n) == mgr[i].soundPools[n]
Clones(i, n) == {PoolOf(i, n)[k] : k \in 1..Len(PoolOf(i, n))}
NotPlaying(i, n) == {k \in 1..Len(PoolOf(i, n)) : ~SoundEffect_playing(sounds[PoolOf(i, n)[k]])}
Pooled(e) == e.op = "playSound" /\ e.pc \in {"pool", "steal"}

\* C7: a playSound on a pooled name goes to the first clone, in pool order,
\* that is not playing; when all three clones are playing it goes to the
\* first clone, whose playback restarts from position 0.  The call touches
\* no other sound and creates none, and every pool always holds exactly its
\* three distinct clones.
C7_PoolSelection ==
  [][ /\ \A i \in InstanceIds, n \in DefNames :
           Len(mgr'[i].soundPools[n]) \in {0, poolSize}
           /\ Cardinality({mgr'[i].soundPools[n][k] : k \in 1..Len(mgr'[i].soundPools[n])})
                = Len(mgr'[i].soundPools[n])
      /\ Pooled(last') =>
           LET i == last'.arg.inst
               n == last'.arg.name
               target == last'.arg.sound
           IN /\ Len(PoolOf(i, n)) = poolSize
              /\ mgr' = mgr
              /\ NotPlaying(i, n) # {}
                   => /\ last'.pc = "pool"
                      /\ target = PoolOf(i, n)[CHOOSE k \in NotPlaying(i, n) :
                                                 \A j \in NotPlaying(i, n) : k <= j]
              /\ NotPlaying(i, n) = {}
                   => /\ last'.pc = "steal"
                      /\ target = PoolOf(i, n)[1]
                      /\ sounds'[target].pos = 0 /\ ~sounds'[target].paused
                      /\ ~sounds'[target].ended
              /\ \A s \in SoundIds : s # target => sounds'[s] = sounds[s]
              /\ sounds'[target].name = sounds[target].name
              /\ sounds'[target].clone = sounds[target].clone ]_vars

\* C7, witness: a fourth overlapping playSound has just taken the first clone
\* of a pool whose three clones were all playing: the first clone is back
\* at position 0 with its transport running, the other two go on playing.
C7_Witness ==
  /\ last.op = "playSound" /\ last.pc = "steal"
  /\ Len(PoolOf(last.arg.inst, last.arg.name)) = poolSize
  /\ last.arg.sound = PoolOf(last.arg.inst, last.arg.name)[1]
  /\ sounds[last.arg.sound].pos = 0 /\ ~sounds[last.arg.sound].paused
  /\ \A k \in 2..poolSize :
       SoundEffect_playing(sounds[PoolOf(last.arg.inst, last.arg.name)[k]])

\* A call has started the sound (it awaits the load, or the transport runs)
\* and its playback has not ended.
Started(x) == x.plays \/ (~x.paused /\ ~x.ended)

\* C8: playSound calls in quick succession on a pooled name go to distinct
\* clones: while some clone of the pool has not been started, or has ended
\* its playback, a call never goes to a clone that an earlier call started
\* and whose playback has not ended.
C8_DistinctClones ==
  [][ Pooled(last') =>
        ( (\E s \in Clones(last'.arg.inst, last'.arg.name) : ~Started(sounds[s]))
          => ~Started(sounds[last'.arg.sound]) ) ]_vars

\* C9: getInstance() returns the singleton while there is one and changes
\* nothing; only dispose() clears the singleton reference, and it always
\* does; the getInstance() after it constructs an instance that never
\* existed before, with an empty catalog, no pools, a Music Player of its own
\* and the persisted settings merged over the defaults.
C9_Singleton ==
  [][ /\ (last'.op = "getInstance" /\ instance # Null)
           => /\ last'.arg.inst = instance /\ last'.pc = "same"
              /\ UNCHANGED managerVars
      /\ (last'.op = "getInstance" /\ instance = Null)
           => LET id == last'.arg.inst
              IN /\ id \notin 1..created /\ id \in 1..created'
                 /\ instance' = id
                 /\ \A n \in DefNames : mgr'[id].soundEffects[n] = Null
                                         /\ mgr'[id].soundPools[n] = <<>>
                 /\ \A j \in 1..created :
                      mgr'[j] = mgr[j] /\ mgr'[id].musicPlayer.id # mgr[j].musicPlayer.id
                 /\ mgr'[id].settings =
                      IF storage.state = "json"
                      THEN [k \in DOMAIN defaultSettings |->
                              IF k \in DOMAIN storage.blob THEN storage.blob[k]
                              ELSE defaultSettings[k]]
                      ELSE defaultSettings
                 /\ sounds' = sounds /\ storage' = storage
      /\ last'.op = "dispose" => instance' = Null
      /\ instance' # instance
           => \/ last'.op = "dispose"
              \/ last'.op = "getInstance" /\ instance = Null ]_vars

\* C9, witness: after a dispose, getInstance() has just constructed the second
\* instance; it is the singleton, its settings come from the persisted
\* store and differ from the defaults, and the first instance is empty.
C9_Witness ==
  /\ last.op = "getInstance" /\ last.pc = "new" /\ last.arg.inst = 2
  /\ instance = 2 /\ created = 2
  /\ storage.state = "json" /\ mgr[2].settings = storage.blob
  /\ mgr[2].settings # defaultSettings
  /\ mgr[2].musicPlayer.id # mgr[1].musicPlayer.id
  /\ \A n \in DefNames : mgr[2].soundEffects[n] = Null /\ mgr[2].soundPools[n] = <<>>

\* The definitions whose load has succeeded when the step that settles the
\* last load of initialize() on instance i has been taken.
Succeeded(i) ==
  {n \in DefNames : mgr[i].init[n] = "ok"}
  \cup {sounds[s].name : s \in {u \in SoundIds : sounds[u].awaiting = i /\ sounds'[u].loaded}}

\* C10: initialize() returns, without throwing, in the step that settles
\* its last load, whatever loads failed.  Unless a dispose() has emptied the
\* catalog meanwhile, the catalog then holds exactly the names whose load
\* succeeded, each of them loaded, and there is a pool, of exactly three
\* distinct clones, for exactly the loaded names among coin, jump and
\* enemy_stomp.
C10_InitializeTolerant ==
  [][ \A i \in InstanceIds :
        /\ ( /\ Cardinality({n \in DefNames : mgr[i].init[n] = "pending"}) = 1
             /\ mgr'[i].init # mgr[i].init )
           => /\ last'.op = "initialize" /\ last'.ev = "done" /\ last'.arg.inst = i
              /\ \A n \in DefNames : mgr'[i].init[n] = "none"
        /\ ( /\ last'.op = "initialize" /\ last'.arg.inst = i
             /\ \A n \in DefNames : mgr[i].init[n] = "ok" => mgr[i].soundEffects[n] # Null )
           => /\ last'.ev = "done"
              /\ \A n \in DefNames : mgr[i].init[n] # "none"
              /\ {n \in DefNames : mgr'[i].soundEffects[n] # Null} = Succeeded(i)
              /\ last'.arg.ok = Succeeded(i)
              /\ \A n \in Succeeded(i) : sounds'[mgr'[i].soundEffects[n]].loaded
              /\ \A n \in DefNames :
                   /\ Len(mgr'[i].soundPools[n])
                        = IF n \in Succeeded(i) \cap PooledNames THEN 3 ELSE 0
                   /\ Cardinality({mgr'[i].soundPools[n][k] :
                                     k \in 1..Len(mgr'[i].soundPools[n])})
                        = Len(mgr'[i].soundPools[n])
                   /\ \A k \in 1..Len(mgr'[i].soundPools[n]) :
                        sounds'[mgr'[i].soundPools[n][k]].name = n ]_vars

\* C10, witness: initialize() has just returned after the load of land
\* failed and the load of jump succeeded: the catalog holds jump alone,
\* loaded, with its pool of three clones.
C10_Witness ==
  /\ last.op = "initialize" /\ last.ev = "done" /\ last.arg.ok = {"jump"}
  /\ mgr[last.arg.inst].soundEffects["land"] = Null
  /\ mgr[last.arg.inst].soundEffects["jump"] # Null
  /\ sounds[mgr[last.arg.inst].soundEffects["jump"]].loaded
  /\ Len(mgr[last.arg.inst].soundPools["jump"]) = poolSize
  /\ mgr[last.arg.inst].soundPools["land"] = <<>>

(* ------------- claims: playSound, settings and volumes ---------------- *)

\* The settings of the instance a playSound() step was called on, as they
\* were when it was called.
SettingsAt(e) == mgr[e.arg.inst].settings

\* C11: a playSound called while settings.muted or settings.sfxMuted is set
\* does nothing: it resolves no instance, changes no sound, no pool, no
\* setting and nothing in the store; and playSound gives up that way only
\* when one of the two flags is set.
C11_MutedNoOp ==
  [][ last'.op = "playSound"
        => /\ (SettingsAt(last').muted \/ SettingsAt(last').sfxMuted)
                <=> last'.pc = "muted"
           /\ last'.pc = "muted"
                => /\ last'.arg.sound = Null
                   /\ UNCHANGED <<sounds, mgr, storage, instance, created>> ]_vars

\* C11, witness: a playSound of jump with a volume override has just
\* returned as muted, sound effects alone being muted, on an instance whose
\* jump is loaded and pooled; no clone of the pool has been started.
C11_Witness ==
  /\ last.op = "playSound" /\ last.pc = "muted" /\ last.arg.name = "jump"
  /\ last.arg.options.volume # Undefined
  /\ mgr[last.arg.inst].settings.sfxMuted /\ ~mgr[last.arg.inst].settings.muted
  /\ Len(mgr[last.arg.inst].soundPools["jump"]) = poolSize
  /\ \A k \in 1..poolSize :
       LET x == sounds[mgr[last.arg.inst].soundPools["jump"][k]]
       IN x.paused /\ ~x.plays

\* C12: an unmuted playSound resolves a clone of the name's pool when the
\* name has a pool, else the catalog entry of the name, else nothing, and
\* then does nothing at all.  It calls play() on the instance it resolved and
\* on no other: that instance either waits for its load with the play
\* pending, or is at position 0 and not ended, or has a failed load and is
\* left as it was; every other sound and the manager are unchanged.
C12_Resolution ==
  [][ (last'.op = "playSound" /\ last'.pc # "muted")
        => LET i == last'.arg.inst
               n == last'.arg.name
               target == last'.arg.sound
           IN /\ mgr' = mgr /\ storage' = storage
              /\ Len(PoolOf(i, n)) > 0
                   => target \in Clones(i, n) /\ last'.pc \in {"pool", "steal"}
              /\ (Len(PoolOf(i, n)) = 0 /\ mgr[i].soundEffects[n] # Null)
                   => target = mgr[i].soundEffects[n] /\ last'.pc = "catalog"
              /\ (Len(PoolOf(i, n)) = 0 /\ mgr[i].soundEffects[n] = Null)
                   => target = Null /\ last'.pc = "none" /\ sounds' = sounds
              /\ target # Null
                   => /\ \A s \in SoundIds : s # target => sounds'[s] = sounds[s]
                      /\ \/ sounds'[target].plays /\ sounds'[target].loadPromise = "pending"
                         \/ sounds'[target].pos = 0 /\ ~sounds'[target].ended
                              /\ sounds'[target].loaded
                         \/ sounds[target].error /\ sounds'[target] = sounds[target] ]_vars

\* C12, witness: a playSound of land, which has no pool, has just started
\* the catalog entry of land, while the pool of jump exists and is idle.
C12_Witness ==
  /\ last.op = "playSound" /\ last.pc = "catalog" /\ last.arg.name = "land"
  /\ last.arg.sound = mgr[last.arg.inst].soundEffects["land"]
  /\ mgr[last.arg.inst].soundPools["land"] = <<>>
  /\ ~sounds[last.arg.sound].paused /\ sounds[last.arg.sound].pos = 0
  /\ Len(mgr[last.arg.inst].soundPools["jump"]) = poolSize
  /\ \A k \in 1..poolSize : sounds[mgr[last.arg.inst].soundPools["jump"][k]].paused

\* The volume playSound() applies: the override, or 1.0 without one, times
\* the sound-effect volume, times the master volume.
Applied(e, st) ==
  LET given == IF e.arg.options.volume # Undefined THEN e.arg.options.volume ELSE Unit
      sfx == (given * st.sfxVolume) \div Unit
  IN (sfx * st.masterVolume) \div Unit

Clamp01(v) == IF v < 0 THEN 0 ELSE IF v > Unit THEN Unit ELSE v

\* C13: the volume an unmuted playSound applies is (override or 1.0) x
\* sfxVolume x masterVolume of the settings in force when it is called.  A
\* play that starts in the call sets the output level to that product
\* clamped to [0, 1]; a play that waits for the load carries the product, and
\* the load sets the output level to the carried product clamped.
C13_AppliedVolume ==
  [][ /\ (last'.op = "playSound" /\ last'.pc \notin {"muted", "none"})
           => LET target == last'.arg.sound
                  v == Applied(last', SettingsAt(last'))
              IN /\ (sounds[target].loaded /\ ~sounds[target].error)
                      => sounds'[target].level = Clamp01(v)
                 /\ sounds'[target].plays => sounds'[target].playVolume = v
      /\ \A s \in SoundIds :
           (sounds[s].plays /\ sounds[s].src /\ sounds'[s].loaded /\ ~sounds[s].loaded)
             => sounds'[s].level = Clamp01(sounds[s].playVolume) ]_vars

\* C13, witness: with the master volume lowered to 0.5 and the sound-effect
\* volume at its default 0.8, a playSound of land with the override 0.5 has
\* just started land at the output level 0.2.
C13_Witness ==
  /\ last.op = "playSound" /\ last.pc = "catalog"
  /\ last.arg.options.volume = Unit \div 2
  /\ mgr[last.arg.inst].settings.masterVolume = Unit \div 2
  /\ mgr[last.arg.inst].settings.sfxVolume = Tenths(8)
  /\ ~sounds[last.arg.sound].paused
  /\ sounds[last.arg.sound].level = Unit \div 5

\* A step in which getInstance() constructs a manager, and the manager.
Constructs == last'.op = "getInstance" /\ last'.pc = "new"
Constructed == mgr'[last'.arg.inst].settings

FromStore(store) ==
  [k \in DOMAIN defaultSettings |->
     IF store.state = "json" /\ k \in DOMAIN store.blob THEN store.blob[k]
     ELSE defaultSettings[k]]

\* C15: a manager is constructed, without throwing, with the stored value
\* of every key the persisted item has and the default of every other key,
\* hence with exactly the defaults when the item is absent, unreadable or
\* corrupt; the manager the module exports is constructed so as well.  An
\* updateSettings() whose write throws returns normally with the given keys
\* updated in memory and the store left as it was.
C15_LoadMerges ==
  /\ mgr[1].settings = FromStore(storage)
  /\ [][ /\ Constructs
              => /\ last'.ev = "done"
                 /\ Constructed = FromStore(storage)
                 /\ storage.state # "json" => Constructed = defaultSettings
         /\ (last'.op = "updateSettings" /\ ~last'.arg.ok)
              => /\ last'.ev = "done"
                 /\ storage' = storage
                 /\ \A k \in DOMAIN last'.arg.newSettings :
                      mgr'[last'.arg.inst].settings[k] = last'.arg.newSettings[k] ]_vars

\* C15, witness: a manager has just been constructed from a store whose
\* item holds sfxVolume alone: it has the stored sfxVolume 0.5 and the
\* default of every other key.
C15_Witness ==
  /\ last.op = "getInstance" /\ last.pc = "new"
  /\ storage.state = "json" /\ DOMAIN storage.blob = {"sfxVolume"}
  /\ mgr[last.arg.inst].settings.sfxVolume = Unit \div 2
  /\ mgr[last.arg.inst].settings.sfxVolume # defaultSettings.sfxVolume
  /\ \A k \in DOMAIN defaultSettings \ {"sfxVolume"} :
       mgr[last.arg.inst].settings[k] = defaultSettings[k]

InRange(v) == 0 <= v /\ v <= Unit

\* C16: every stored volume lies in [0, 1]: the three volumes of the
\* settings of every manager, the stored volume of every sound, and the
\* stored volume of every music player.
C16_VolumesInRange ==
  /\ \A i \in 1..created :
       /\ InRange(mgr[i].settings.masterVolume)
       /\ InRange(mgr[i].settings.sfxVolume)
       /\ InRange(mgr[i].settings.musicVolume)
       /\ InRange(mgr[i].musicPlayer.volume)
  /\ \A s \in SoundIds : InRange(sounds[s].volume)
  /\ InRange(volume)

(* --------------------- claims: SoundEffect ---------------------------- *)

\* C17: SoundEffect.setVolume(v) stores max(0, min(1, v)) and sets the
\* element's level to it, touching nothing else of the sound;
\* MusicPlayer.setVolume(v) stores max(0, min(1, v)) and sets the level of
\* the current track to it when a track is current and the player is not
\* muted, and otherwise changes no element.
C17_SetVolumeClamps ==
  [][ /\ last'.op = "SoundEffect.setVolume"
           => LET s == last'.arg.sound
                  nv == Clamp01(last'.arg.volume)
              IN /\ sounds'[s] = [sounds[s] EXCEPT !.volume = nv, !.level = nv]
                 /\ \A u \in SoundIds \ {s} : sounds'[u] = sounds[u]
                 /\ UNCHANGED <<audio, volume, muted>>
      /\ last'.op = "setVolume"
           => /\ volume' = Clamp01(last'.arg)
              /\ UNCHANGED <<sounds, muted, currentTrack>>
              /\ IF currentTrack # Null /\ ~muted
                 THEN audio' = [audio EXCEPT ![currentTrack].volume = Clamp01(last'.arg)]
                 ELSE audio' = audio ]_vars

\* C17, witness: setVolume(1.5) has just been called on a sound constructed
\* with volume 0.6, which now stores and outputs 1.0, while the music player,
\* after its own setVolume(1.5), is unmuted with its current track at 1.0.
C17_Witness ==
  /\ last.op = "SoundEffect.setVolume" /\ last.arg.volume = Unit + (Unit \div 2)
  /\ sounds[last.arg.sound].rateOption = 5 * RateUnit
  /\ sounds[last.arg.sound].volume = Unit /\ sounds[last.arg.sound].level = Unit
  /\ currentTrack # Null /\ ~muted /\ volume = Unit
  /\ audio[currentTrack].volume = Unit /\ fadeIntervals = {}

ClampRate(r) == IF r < MinRate THEN MinRate ELSE IF r > MaxRate THEN MaxRate ELSE r

\* C18: the rate of a sound is max(0.25, min(4.0, r)) of the rate r
\* requested, by the options of its construction (1.0 without one) or by the
\* override of a play() that starts it; no sound has a rate outside
\* [0.25, 4.0].
C18_RateClamped ==
  [][ /\ \A s \in SoundIds :
           sounds'[s].name # "" => (MinRate <= sounds'[s].rate /\ sounds'[s].rate <= MaxRate)
      /\ (last'.op = "SoundEffect" /\ last'.ev = "done")
           => sounds'[last'.arg.sound].rate
                = ClampRate(IF last'.arg.options.playbackRate # Undefined
                            THEN last'.arg.options.playbackRate ELSE RateUnit)
      /\ ( /\ last'.op = "SoundEffect.play"
           /\ last'.arg.options.playbackRate # Undefined
           /\ sounds[last'.arg.sound].loaded /\ ~sounds[last'.arg.sound].error )
           => sounds'[last'.arg.sound].rate = ClampRate(last'.arg.options.playbackRate) ]_vars

\* The rate a sound was constructed with.
StoredRate(x) == IF x.rateOption # Undefined THEN x.rateOption ELSE RateUnit

\* C19: a play() on a loaded sound puts the position at the start and sets
\* the level to the volume override, clamped, or to the stored volume
\* without one, and the rate to the rate override, clamped, or to the rate
\* the sound was constructed with (clamped or not) without one; it never
\* changes the stored volume.
C19_OverridesPerPlay ==
  [][ ( /\ last'.op = "SoundEffect.play"
        /\ sounds[last'.arg.sound].loaded /\ ~sounds[last'.arg.sound].error )
        => LET x == sounds[last'.arg.sound]
               y == sounds'[last'.arg.sound]
               o == last'.arg.options
           IN /\ y.pos = 0 /\ ~y.ended
              /\ y.level = IF o.volume # Undefined THEN Clamp01(o.volume) ELSE x.volume
              /\ y.volume = x.volume
              /\ IF o.playbackRate # Undefined
                 THEN y.rate = ClampRate(o.playbackRate)
                 ELSE y.rate \in {StoredRate(x), ClampRate(StoredRate(x))} ]_vars

\* C20: on a sound that is not disposed, the promise of load() is made once
\* and the fetch started at most once; every load(), and every play() that
\* finds the sound neither loaded nor in error, called while it is pending
\* waits on that promise, and all of them resume in the
\* step that settles it: with loaded set and error clear, the plays
\* started, when it resolves; with error set and loaded clear, the plays
\* dropped, when it rejects.  A settled promise keeps its outcome and its
\* flags, and a later load() returns it.
C20_LoadShared ==
  [][ /\ \A s \in SoundIds :
           LET x == sounds[s]
               y == sounds'[s]
           IN /\ y.fetches <= 1
              /\ (x.name # "" /\ x.loadPromise # "none")
                   => /\ y.fetches = x.fetches
                      /\ y.loadPromise = x.loadPromise
                           \/ (x.loadPromise = "pending"
                                 /\ y.loadPromise \in {"resolved", "rejected"})
              /\ y.loadPromise = "resolved" => (y.loaded /\ ~y.error)
              /\ y.loadPromise = "rejected" => (y.error /\ ~y.loaded)
              /\ (y.loads \/ y.plays) => y.loadPromise = "pending"
              /\ (x.loadPromise = "pending" /\ y.loadPromise = "resolved")
                   => /\ ~y.loads /\ ~y.plays /\ y.awaiting = Null
                      /\ x.plays => (y.pos = 0 /\ ~y.ended)
              /\ (x.loadPromise = "pending" /\ y.loadPromise = "rejected")
                   => /\ ~y.loads /\ ~y.plays /\ y.awaiting = Null
                      /\ y.paused = x.paused /\ y.pos = x.pos
      /\ last'.op = "SoundEffect.load"
           => LET x == sounds[last'.arg.sound]
                  y == sounds'[last'.arg.sound]
              IN /\ last'.ev = y.loadPromise
                 /\ y.loads = (y.loadPromise = "pending")
                 /\ x.loadPromise # "none" => last'.pc = "shared"
      /\ ( /\ last'.op = "SoundEffect.play"
           /\ sounds[last'.arg.sound].loadPromise = "pending"
           /\ ~sounds[last'.arg.sound].loaded /\ ~sounds[last'.arg.sound].error )
           => LET x == sounds[last'.arg.sound]
                  y == sounds'[last'.arg.sound]
              IN y.plays /\ y.paused = x.paused /\ y.pos = x.pos /\ y.loads = x.loads ]_vars

\* C20, witness: a play() has just joined the load() of its holder on a
\* sound whose load is pending: both wait on the one promise, and one fetch
\* was started.
C20_Witness ==
  /\ last.op = "SoundEffect.play"
  /\ sounds[last.arg.sound].loads /\ sounds[last.arg.sound].plays
  /\ sounds[last.arg.sound].loadPromise = "pending"
  /\ sounds[last.arg.sound].fetches = 1
  /\ sounds[last.arg.sound].paused

\* C21: SoundEffect.play() returns normally whatever happens.  On a sound
\* whose error flag is set it changes nothing of the sound: transport,
\* level, rate and position stay as they were, on every such call.  A load
\* that fails while plays wait on it releases them with the sound not
\* started, and a play whose transport is refused leaves the sound paused
\* as it was.
C21_PlayNeverThrows ==
  [][ /\ last'.op = "SoundEffect.play"
           => /\ last'.ev = "done"
              /\ sounds[last'.arg.sound].error => sounds' = sounds
              /\ \A u \in SoundIds \ {last'.arg.sound} : sounds'[u] = sounds[u]
      /\ \A s \in SoundIds :
           (sounds[s].plays /\ sounds'[s].error)
             => /\ ~sounds'[s].plays
                /\ sounds'[s].paused = sounds[s].paused /\ sounds'[s].pos = sounds[s].pos
                /\ sounds'[s].level = sounds[s].level /\ sounds'[s].rate = sounds[s].rate
      /\ \A s \in SoundIds :
           (sounds[s].paused /\ ~sounds'[s].paused)
             => /\ sounds'[s].loaded /\ ~sounds'[s].error
                /\ sounds'[s].pos = 0 ]_vars

\* C21, witness: a play() with overrides has just returned on a sound whose
\* load was rejected: the sound is paused at the start, at the level and
\* rate it was constructed with.
C21_Witness ==
  /\ last.op = "SoundEffect.play" /\ last.ev = "done"
  /\ last.arg.options.volume = 2 * Unit
  /\ sounds[last.arg.sound].error /\ sounds[last.arg.sound].loadPromise = "rejected"
  /\ sounds[last.arg.sound].paused /\ sounds[last.arg.sound].pos = 0
  /\ sounds[last.arg.sound].level = Tenths(6)
  /\ sounds[last.arg.sound].rate = 5 * RateUnit

(* ----------------- claims: MusicPlayer, continued --------------------- *)

C23_CrossfadeAborts ==
  [][ \A c \in Slots :
        /\ ( /\ calls[c].pc \in {"idle", "load_wait"}
             /\ calls'[c].pc = "xf_play_wait" )
             => /\ currentTrack' = currentTrack /\ currentTrack # Null
                /\ calls'[c].from = currentTrack /\ calls'[c].audio # currentTrack
                /\ fadeIntervals' = fadeIntervals
                /\ audio'[calls'[c].audio].pos = 0 /\ audio'[calls'[c].audio].volume = 0
                /\ audio'[currentTrack] = audio[currentTrack]
                /\ \A a \in AudioIds \ {calls'[c].audio} :
                     audio'[a].name # "" => audio'[a] = audio[a]
        /\ ( /\ calls[c].pc = "xf_play_wait" /\ ~calls[c].ok
             /\ calls'[c] # calls[c] /\ last'.op # "dispose" )
             => /\ last' = Event("play", "done", "xf_play_wait", Null)
                /\ calls'[c].pc = "idle"
                /\ currentTrack' = currentTrack
                /\ \A a \in AudioIds : audio'[a].name # "" => audio'[a] = audio[a]
                /\ currentTrack # Null => audio'[currentTrack] = audio[currentTrack]
                /\ fadeIntervals' = fadeIntervals ]_vars

\* C23, witness: play(B) has just returned from a crossfade whose target
\* was refused: the old track is still current and playing at the stored
\* volume, past its start, no ramp is live, and the target is cached, paused.
C23_Witness ==
  /\ last = Event("play", "done", "xf_play_wait", Null)
  /\ currentTrack # Null /\ ~audio[currentTrack].paused
  /\ audio[currentTrack].pos = 1 /\ audio[currentTrack].volume = volume
  /\ fadeIntervals = {}
  /\ \E n \in TrackNames :
       /\ loadedTracks[n] \notin {Null, currentTrack}
       /\ audio[loadedTracks[n]].paused /\ audio[loadedTracks[n]].volume = 0

\* The output level of every element that exists before and after a step
\* is the same.
SameLevels == \A a \in AudioIds :
  (audio[a].name # "" /\ audio'[a].name # "") => audio'[a].volume = audio[a].volume

\* C24: a playback failure changes nothing in the player.  The step in
\* which play(track), with no current track, has its transport request
\* refused, and the step in which that play() then returns, leave the
\* current slot and every level as they were; so do the step in which
\* resume() has its request refused and the step in which it returns, and
\* the step in which the load of a track fails, which also leaves the cache
\* as it was.
C24_FailureNoChange ==
  [][ \A c \in Slots :
        /\ ( /\ calls[c].pc \in {"idle", "load_wait"} /\ currentTrack = Null
             /\ calls'[c].pc = "play_wait" /\ ~calls'[c].ok )
             => currentTrack' = currentTrack /\ SameLevels
        /\ ( /\ calls[c].pc \in {"play_wait", "resume_wait"} /\ ~calls[c].ok
             /\ calls'[c].pc = "idle" /\ last'.op \in {"play", "resume"} )
             => currentTrack' = currentTrack /\ SameLevels /\ fadeIntervals' = fadeIntervals
        /\ ( /\ calls[c].pc = "idle" /\ calls'[c].pc = "resume_wait" /\ ~calls'[c].ok )
             => currentTrack' = currentTrack /\ SameLevels /\ audio' = audio
        /\ ( /\ calls[c].pc = "load_wait" /\ calls'[c].pc = "idle"
             /\ last' = Event("play", "done", "load_wait", Null) )
             => /\ currentTrack' = currentTrack /\ loadedTracks' = loadedTracks
                /\ SameLevels /\ fadeIntervals' = fadeIntervals ]_vars

(* ----------------- claims: AudioManager, continued -------------------- *)

\* C25: when updateSettings(partial) returns, the settings are the previous
\* ones with the keys of partial replaced; the store holds exactly these
\* settings if the write did not throw; the music player's mute flag is
\* (muted or musicMuted) of these settings and, when that is false, its
\* stored volume is musicVolume x masterVolume clamped to [0, 1], and when
\* it is true its stored volume is left as it was.
C25_UpdateSettings ==
  [][ last'.op = "updateSettings"
        => LET i == last'.arg.inst
               st == mgr'[i].settings
               mute == st.muted \/ st.musicMuted
           IN /\ last'.ev = "done"
              /\ st = [k \in DOMAIN defaultSettings |->
                         IF k \in DOMAIN last'.arg.newSettings
                         THEN last'.arg.newSettings[k] ELSE mgr[i].settings[k]]
              /\ last'.arg.ok => storage'.state = "json" /\ storage'.blob = st
              /\ mgr'[i].musicPlayer.muted = mute
              /\ mgr'[i].musicPlayer.volume
                   = IF mute THEN mgr[i].musicPlayer.volume
                     ELSE Clamp01((st.musicVolume * st.masterVolume) \div Unit)
              /\ \A j \in InstanceIds \ {i} : mgr'[j] = mgr[j] ]_vars

\* C25, witness: updateSettings({masterVolume: 1.5}) has just returned on
\* a manager whose musicVolume is 0.3: the store holds its settings and its
\* music player is unmuted with the stored volume 0.45.
C25_Witness ==
  /\ last.op = "updateSettings" /\ last.arg.ok
  /\ last.arg.newSettings = [masterVolume |-> (3 * Unit) \div 2]
  /\ mgr[last.arg.inst].settings.musicVolume = Tenths(3)
  /\ storage.state = "json" /\ storage.blob = mgr[last.arg.inst].settings
  /\ ~mgr[last.arg.inst].musicPlayer.muted
  /\ mgr[last.arg.inst].musicPlayer.volume = (9 * Unit) \div 20

\* The music methods that delegate to the player.
MusicOps == {"play", "stop", "pause", "resume"}
\* A step in which one of the manager's music methods is called.
MusicCalled == Quiet /\ (calls' # calls \/ last'.op \in MusicOps)

\* C26: each of playMusic, stopMusic, pauseMusic and resumeMusic leaves the
\* player with the composite of the current settings when it delegates: the
\* player's mute flag is (muted OR musicMuted) and, when that is false, its
\* stored volume is musicVolume x masterVolume clamped to [0, 1]; this also
\* on a manager just constructed from persisted settings.
C26_CompositeApplied ==
  [][MusicCalled =>
       LET st == mgr[1].settings
       IN /\ muted' = (st.muted \/ st.musicMuted)
          /\ ~muted' => volume' = Clamp01(Mul(st.musicVolume, st.masterVolume))]_vars

\* The ramp timers started by call c and still alive.
RampsOf(c) == {r \in fadeIntervals : r.owner = c}

\* C27: within one play(track) the plain fade-in and the crossfade exclude
\* each other.  When the target has been resolved the call takes the
\* crossfade branch if and only if a track other than the target is current,
\* and the plain branch otherwise (no current track, or the target is already
\* current); a fade-in alone is only started from the plain branch, the pair
\* of crossfade ramps only from the crossfade branch, and a call never holds
\* the ramps of both.
C27_FadeOrCrossfade ==
  /\ \A c \in Slots : calls[c].op = "play" =>
       /\ calls[c].pc \in {"load_wait", "play_wait", "xf_play_wait"} => RampsOf(c) = {}
       /\ calls[c].pc = "fade_wait" =>
            \A r \in RampsOf(c) : r.kind = "in" /\ r.audio = calls[c].audio
       /\ calls[c].pc = "xf_wait" =>
            \A r \in RampsOf(c) : \/ r.kind = "in" /\ r.audio = calls[c].audio
                                  \/ r.kind = "out" /\ r.audio = calls[c].from
  /\ [][\A c \in Slots : calls'[c].op = "play" =>
          /\ (calls[c].pc # "xf_play_wait" /\ calls'[c].pc = "xf_play_wait") =>
               currentTrack # Null /\ currentTrack # calls'[c].audio
          /\ (calls[c].pc # "play_wait" /\ calls'[c].pc = "play_wait") =>
               currentTrack = Null \/ currentTrack = calls'[c].audio
          /\ (calls[c].pc \in {"idle", "load_wait"} /\ calls'[c].pc \notin {"idle", "load_wait"}) =>
               calls'[c].pc \in {"play_wait", "xf_play_wait"}
          /\ (calls[c].pc # "fade_wait" /\ calls'[c].pc = "fade_wait") =>
               calls[c].op = "play" /\ calls[c].pc = "play_wait"
          /\ (calls[c].pc # "xf_wait" /\ calls'[c].pc = "xf_wait") =>
               calls[c].op = "play" /\ calls[c].pc = "xf_play_wait"]_vars

\* One play() fading its target in alone while another play() crossfades
\* from that target to a different track.
C27_Witness ==
  \E c, d \in Slots :
    /\ calls[c].op = "play" /\ calls[c].pc = "fade_wait" /\ RampsOf(c) # {}
    /\ calls[d].op = "play" /\ calls[d].pc = "xf_wait"
    /\ calls[d].from = calls[c].audio /\ calls[d].audio # calls[c].audio
    /\ Cardinality(RampsOf(d)) = 2

\* Call c obtains its audio handle in this step: play() goes on past
\* `await this.loadTrack(track)`.
Obtains(c) ==
  /\ calls[c].pc \in {"idle", "load_wait"}
  /\ calls'[c].op = "play" /\ calls'[c].pc \in {"play_wait", "xf_play_wait"}

\* C28: loadTrack caches by name.  A play() that obtains the handle of a
\* track for which the cache already holds a handle obtains that same handle,
\* whatever the interleaving of the calls (a second call issued while the
\* first load is outstanding included), and the cache entry of a loaded track
\* is not replaced by another element: the track is loaded only once.
C28_LoadOnce ==
  [][\A c \in Slots : Obtains(c) =>
       LET n == audio'[calls'[c].audio].name
       IN loadedTracks[n] # Null =>
            /\ calls'[c].audio = loadedTracks[n]
            /\ loadedTracks'[n] = loadedTracks[n]]_vars

\* The names of the catalog of initialize().
CatalogNames == {soundDefinitions[k].name : k \in 1..Len(soundDefinitions)}
\* An initialize() of manager i has completed and every sound of the catalog
\* in use has loaded: each has its entry in soundEffects.
InitializedAll(i) ==
  \A n \in DefNames : mgr[i].init[n] = "none" /\ mgr[i].soundEffects[n] # Null

\* C29: each of the 17 quick-access methods calls playSound once, with one
\* fixed name and no overrides; the 17 names are pairwise distinct and are
\* exactly the 17 names of the catalog of initialize(); and on a manager
\* whose initialize() succeeded for every sound no quick-access call ends in
\* the not-found branch.
C29_Convenience ==
  /\ Cardinality(Methods) = 17 /\ Len(soundDefinitions) = 17
  /\ \A a, b \in Methods : a # b => convenience[a] # convenience[b]
  /\ {convenience[a] : a \in Methods} = CatalogNames
  /\ last.op \in Methods =>
       /\ last.arg.name = convenience[last.op]
       /\ last.arg.options = NoOptions
       /\ InitializedAll(last.arg.inst) => last.pc # "none"

\* land() and jump() after a fully successful initialize(): the catalog
\* instance, or a clone of the pool, is played.
C29_Witness ==
  /\ last.op \in Methods /\ InitializedAll(last.arg.inst)
  /\ last.pc \in {"catalog", "pool"}
  /\ sounds[last.arg.sound].plays \/ ~sounds[last.arg.sound].paused

(* ------------------------ claims: AudioGenerator ---------------------- *)

\* C30: for a buffer of N frames at sample rate R the encoder produces
\* 44 + 2N bytes whose header declares format tag 1 (PCM), 1 channel, sample
\* rate R, byte rate 2R, block align 2, 16 bits per sample, RIFF size 36 + 2N
\* and data size 2N; every sample is clamped to [-1, 1] before it is scaled by
\* 32767, so every encoded sample is the scaled clamped value and lies in
\* [-32767, 32767].
C30_WavEncoding ==
  wav.blob # <<>> =>
    LET b == wav.blob
        N == wav.audioBuffer.length
        R == wav.audioBuffer.sampleRate
    IN /\ Len(b) = 44 + 2 * N
       /\ \A k \in 1..Len(b) : b[k] \in 0..255
       /\ getUint32(b, 4) = 36 + 2 * N
       /\ getUint16(b, 20) = 1 /\ getUint16(b, 22) = 1
       /\ getUint32(b, 24) = R /\ getUint32(b, 28) = 2 * R
       /\ getUint16(b, 32) = 2 /\ getUint16(b, 34) = 16
       /\ getUint32(b, 40) = 2 * N
       /\ \A i \in 1..N :
            LET x == wav.audioBuffer.channelData[i]
                e == getInt16(b, 44 + 2 * (i - 1))
            IN /\ e \in (-PcmScale)..PcmScale
               /\ x # NaN => e = Truncate(Max(-Unit, Min(Unit, x)) * PcmScale, Unit)

\* An encoded buffer with a sample above 1 and a sample below -1: they are
\* written as 32767 and -32767.
C30_Witness ==
  /\ wav.blob # <<>> /\ wav.audioBuffer.length = 2
  /\ wav.audioBuffer.channelData = <<Unit + 1, -(2 * Unit)>>
  /\ getInt16(wav.blob, 44) = PcmScale /\ getInt16(wav.blob, 46) = -PcmScale

(* ------------------ claims: MusicPlayer, the ramps -------------------- *)

\* Ramp r, live before the step, is no longer live after it.
Ended(r) ==
  ~\E q \in fadeIntervals' : q.owner = r.owner /\ q.kind = r.kind /\ q.audio = r.audio

\* C31: an undisturbed fade-in towards the stored volume V writes
\* min(V, k*V/60) at its k-th callback; the level never decreases, never
\* exceeds V, and is exactly V when the ramp ends.  An undisturbed fade-out
\* from level S writes max(0, S - k*S/60); the level never increases, is never
\* below 0, and is exactly 0 when the ramp ends.
C31_RampLevels ==
  [][\A r \in fadeIntervals : r \notin fadeIntervals' =>
       LET a == r.audio
           k == r.currentStep + 1
       IN IF r.kind = "in"
          THEN /\ audio'[a].volume = Min(volume, (k * volume) \div 60)
               /\ audio'[a].volume >= audio[a].volume
               /\ audio'[a].volume <= volume
               /\ Ended(r) => audio'[a].volume = volume
          ELSE /\ audio'[a].volume = Max(0, r.startVolume - (k * r.startVolume) \div 60)
               /\ audio'[a].volume <= audio[a].volume
               /\ audio'[a].volume >= 0
               /\ Ended(r) => audio'[a].volume = 0]_vars

\* A crossfade at the default volume 0.7: the fade-in has made 30 of its 60
\* steps and is at 0.35, the fade-out has made 59 and is at 0.7/60.
C31_Witness ==
  /\ volume = DefaultVolume
  /\ \E r, q \in fadeIntervals :
       /\ r.kind = "in" /\ r.currentStep = 30 /\ audio[r.audio].volume = DefaultVolume \div 2
       /\ q.kind = "out" /\ q.currentStep = 59 /\ audio[q.audio].volume = DefaultVolume \div 60

\* C32: a ramp that dispose() does not cancel ends by itself: a live ramp
\* has made fewer than 60 steps, its 60th callback ends it, and so does an
\* earlier callback that reaches the target (the first one when the target is
\* the start).  The ramp's end resolves its signal once: the call waiting on
\* it goes on in that very step and in no other, and the timer leaves the
\* set.  The timer set holds exactly the timers of the live ramps: every
\* timer in it belongs to a call waiting on a ramp, and every such call has a
\* timer in it.
C32_RampsEnd ==
  /\ \A r \in fadeIntervals :
       /\ r.currentStep < 60
       /\ calls[r.owner].pc \in RampWaits
       /\ r.kind = "out" => calls[r.owner].pc # "fade_wait"
       /\ r.kind = "in" => calls[r.owner].pc \in {"fade_wait", "xf_wait"}
  /\ \A c \in Slots : calls[c].pc \in RampWaits => RampsOf(c) # {}
  /\ [][/\ \A r \in fadeIntervals : (r \notin fadeIntervals' /\ last'.op # "dispose") =>
             /\ (r.currentStep = 59 \/ r.targetVolume = r.startVolume) => Ended(r)
             /\ Ended(r) =>
                  /\ audio'[r.audio].volume = r.targetVolume
                  /\ \/ calls'[r.owner].pc = "idle"
                     \/ calls'[r.owner].pc = "xf_wait" /\ RampsOf(r.owner)' # {}
             /\ ~Ended(r) =>
                  /\ calls'[r.owner] = calls[r.owner]
                  /\ fadeIntervals' =
                       (fadeIntervals \ {r}) \cup {[r EXCEPT !.currentStep = r.currentStep + 1]}
        /\ \A c \in Slots :
             (calls[c].pc \in RampWaits /\ calls'[c] # calls[c] /\ last'.op # "dispose") =>
                \E r \in RampsOf(c) : Ended(r)]_vars

\* The 60th callback of a fade-in to 0.7 has just ended the ramp of a play():
\* the timer set is empty, the call has returned and the track is at 0.7.
C32_Witness ==
  /\ last = Event("play", "done", "fade_wait", Null)
  /\ fadeIntervals = {} /\ Quiet /\ currentTrack # Null
  /\ ~audio[currentTrack].paused /\ audio[currentTrack].volume = DefaultVolume

(* ---------------- claims: MusicPlayer, implicit properties ------------ *)

\* C33: while the player is muted no track is audible: every track whose
\* transport is playing is at level 0.
C33_MutedSilent ==
  muted => \A a \in AudioIds : (audio[a].name # "" /\ ~audio[a].paused) => audio[a].volume = 0

\* The cached handles.
Cached == {loadedTracks[n] : n \in TrackNames} \ {Null}

\* C34: only the current track keeps playing: when no ramp is live and no
\* call is pending, every cached track whose transport is playing is the
\* current track, so at most one cached track plays.
C34_OnlyCurrentPlays ==
  (fadeIntervals = {} /\ Quiet) =>
     \A a \in Cached : ~audio[a].paused => a = currentTrack

\* The current slot is empty and no track's transport is playing.
Silent == currentTrack = Null /\ \A a \in Alive : audio[a].paused

\* C35: in every state in which a stop() call has returned and no play() call
\* was issued after it, the current slot is empty and no track's transport is
\* playing; also when stop() was called while a crossfade or a play() awaiting
\* its load was in progress.
C35_StopStays == stopped => Silent

\* C36: the current track is always a cached track, so that currentTrackName
\* is non-null whenever the current slot is non-empty; for any interleaving
\* of play, loadTrack, stop and dispose, also with dispose() or a second
\* play() of the same name while a play() awaits its load.
C36_CurrentIsCached == currentTrack # Null => currentTrack \in Cached

\* C37: in the step in which a fade-in of the current track ends while the
\* player is not muted, the track's level is the stored volume of that
\* moment; also when setVolume was called, directly or through
\* AudioManager.updateSettings, while the ramp was running.
C37_FadeInEndsAtVolume ==
  [][\A r \in fadeIntervals :
       (r.kind = "in" /\ Ended(r) /\ r.audio = currentTrack' /\ ~muted')
       => audio'[r.audio].volume = volume']_vars

(* -------------------- claims: MusicPlayer, liveness ------------------- *)

\* Call c leaves its await.
Leaves(c) == calls[c].pc # "idle" /\ calls'[c].pc = "idle"

\* Every suspended call eventually leaves its await.
AllLeave == \A c \in Slots : (calls[c].pc # "idle") ~> (calls[c].pc = "idle")

\* C38: under fair scheduling of loads, play promises and timers, every
\* play/stop/pause/resume call in flight eventually settles: it leaves its
\* await, and it leaves it only by returning or throwing to its caller; also
\* when dispose() is called while the call is waiting on a fade ramp.
C38_CallsSettle ==
  /\ [][\A c \in Slots :
          Leaves(c) => \E ev \in {"done", "throw"} : Returns(c, calls[c].op, ev)]_vars
  /\ AllLeave

(* ---------------- claims: AudioManager, implicit properties ----------- *)

\* C39: a playSound() call that is not muted, for a pooled name whose catalog
\* entry is loaded, never selects a pool clone whose own load failed: the
\* catalog entry, at least, is able to play.
C39_FailedCloneNotSelected ==
  [][\A i \in InstanceIds, n \in DefNames :
       ( /\ last'.op = "playSound" /\ last'.pc \in {"pool", "steal"}
         /\ last'.arg.inst = i /\ last'.arg.name = n
         /\ mgr[i].soundEffects[n] # Null
         /\ sounds[mgr[i].soundEffects[n]].loaded )
       => ~sounds[last'.arg.sound].error]_vars

\* The catalog sounds and pool clones instance i holds.
Holds(i) ==
  ({mgr[i].soundEffects[n] : n \in DefNames} \ {Null})
  \cup UNION {{mgr[i].soundPools[n][k] : k \in 1..Len(mgr[i].soundPools[n])} : n \in DefNames}

\* The sounds instance i has created and not dropped: those it holds and
\* those whose load its initialize() awaits.
CreatedBy(i) == Holds(i) \cup {s \in SoundIds : sounds[s].awaiting = i}

\* C40: an instance on which dispose() has returned holds no catalog sound
\* and no pool clone in any later state, and in the step in which dispose()
\* returns every sound the instance has created is disposed; also when
\* dispose() is called while initialize() awaits its loads, or initialize()
\* was called more than once.
C40_DisposedHoldsNothing ==
  /\ \A i \in disposed : Holds(i) = {}
  /\ [][\A i \in disposed' \ disposed : \A s \in CreatedBy(i) : ~sounds'[s].src]_vars

====
